---- MODULE Spec2Model ----
(***************************************************************************)
(* A model of the TODO.md migration tool (docs/migrate_todo_to_postgres.py),*)
(* of the kanban task store it writes to (docs/kanban_models.py), of the   *)
(* API that serves the store (docs/kanban_api_routes_postgres.py), of the  *)
(* secrets scripts (docs/update_secrets_for_postgres.py and                *)
(* scripts/add_admin_user.py) and of RailsAppTester.run_tests              *)
(* (test_apps.py).                                                         *)
(*                                                                         *)
(* Text is modelled as a sequence of tokens.  A token is a TLA+ string     *)
(* that stands for the characters it spells: "#", "-", " " are single      *)
(* characters, "[x]" is the checkbox, "(high)" a priority marker,          *)
(* "(id:42)" an id marker, "{" and "}" braces, "\"epic\":\"Launch\"" a     *)
(* JSON member.  The regular expressions of the parser are computed on     *)
(* these sequences.                                                        *)
(***************************************************************************)
EXTENDS Integers, Sequences, FiniteSets, TLC

VARIABLES
    todo_file,      \* the lines of the document at TodoParser.todo_file
    tasks,          \* TodoParser.tasks
    parsed,         \* the values returned by the calls of parse, in order
    run,            \* where the run of main stands: "new", "parsed", "dry_run",
                    \* "migrating", "migrated", "done", "not_found", "failed"
    store,          \* the committed rows of kanban_tasks
    next_id,        \* the autoincrement counter of kanban_tasks.id
    migrated,       \* the values returned by the calls of migrate_tasks
    api_calls,      \* the number of API requests served
    file_exists,    \* the document is there at the path main was given
    backup,         \* the .md.backup file main renames the document to is there
    migrator,       \* the DatabaseMigrator of the run: its session, the loop's place
    response,       \* the last API request served and what it answered
    history,        \* the rows of kanban_task_history
    files,          \* .secrets.json and the backups the secrets scripts write
    tester,         \* a RailsAppTester: its requests, its summary, where run_tests stands
    migrators       \* the sessions of two runs of main against one store

vars == <<todo_file, tasks, parsed, run, store, next_id, migrated, api_calls,
          file_exists, backup, migrator, response, history, files, tester, migrators>>

-----------------------------------------------------------------------------
(* Bounds of the model *)

MaxLines == 3       \* lines of a document
MaxParts == 4       \* chunks of text in the body of a task line
MaxCalls == 2       \* calls of parse on one parser
MaxRuns == 2        \* calls of migrate_tasks
MaxApi == 2         \* tasks created through the API
MaxIds == 4         \* ids drawn from the sequence before a further run of main
MaxOps == 3         \* API requests served
MaxScripts == 3     \* runs of the secrets scripts

-----------------------------------------------------------------------------
(* Options: None is <<>>, Some(v) is <<v>> *)

None == <<>>
Some(v) == <<v>>

-----------------------------------------------------------------------------
(* Text helpers: str.strip, substring tests, character lengths *)

RECURSIVE LStrip(_)
LStrip(s) ==
    IF s # <<>> /\ Head(s) = " " THEN LStrip(Tail(s)) ELSE s

RECURSIVE RStrip(_)
RStrip(s) ==
    IF s # <<>> /\ s[Len(s)] = " " THEN RStrip(SubSeq(s, 1, Len(s) - 1)) ELSE s

Strip(s) == RStrip(LStrip(s))

Contains(s, tok) == \E i \in 1..Len(s) : s[i] = tok

\* the number of characters a token spells
TokLen(tok) ==
    CASE tok = "W50" -> 50
      [] tok = "W49" -> 49
      [] tok \in {" ", ":", "#", "-", "*", "{", "}", ","} -> 1
      [] tok \in {"[ ]", "[x]", "[X]", "(id", "Fix", "bad", "b\""} -> 3
      [] tok \in {"Ship", "Epic"} -> 4
      [] tok \in {"(low)", "To Do", "Notes"} -> 5
      [] tok \in {"(high)", "(id:7)", "(id:x)", "\"epic\""} -> 6
      [] tok \in {"(id:42)", "Backlog", "Not Yet", "release"} -> 7
      [] tok \in {"(medium)", "(urgent)"} -> 8
      [] tok = "\"epic\":\"a" -> 9
      [] tok = "\"epic\":\"\"" -> 9
      [] tok = "Completed" -> 9
      [] tok = "In Progress" -> 11
      [] tok = "\"epic\":\"Launch\"" -> 15
      [] tok = "\"occurrence_count\"" -> 18
      [] tok \in {"\"occurrence_count\":3", "\"occurrence_count\":0"} -> 20
      [] tok = "\"created_at\":\"\"" -> 15
      [] tok = "\"created_at\":\"soon\"" -> 19
      [] tok = "\"completed_at\":\"soon\"" -> 21
      [] tok = "\"created_at\":\"2024-01-01\"" -> 25
      [] tok = "\"completed_at\":\"2024-01-01\"" -> 27
      [] tok = "W101" -> 101
      [] tok = "\"epic\":\"W101\"" -> 110
      [] tok = "\"created_at\"" -> 12
      [] tok = "\"completed_at\"" -> 14
      [] OTHER -> 1

RECURSIVE TextLen(_)
TextLen(s) == IF s = <<>> THEN 0 ELSE TokLen(Head(s)) + TextLen(Tail(s))

\* a token whose spelling holds a colon, and what it spells before the colon
HasColon(tok) ==
    tok \in {":", "(id:x)", "(id:42)", "(id:7)", "\"epic\":\"a", "\"epic\":\"\"",
             "\"epic\":\"Launch\"", "\"occurrence_count\":3", "\"occurrence_count\":0",
             "\"epic\":\"W101\"",
             "\"created_at\":\"2024-01-01\"", "\"created_at\":\"soon\"",
             "\"created_at\":\"\"",
             "\"completed_at\":\"2024-01-01\"", "\"completed_at\":\"soon\""}

BeforeColon(tok) ==
    CASE tok = ":" -> <<>>
      [] tok \in {"(id:x)", "(id:42)", "(id:7)"} -> <<"(id">>
      [] tok \in {"\"occurrence_count\":3", "\"occurrence_count\":0"}
            -> <<"\"occurrence_count\"">>
      [] tok \in {"\"created_at\":\"2024-01-01\"", "\"created_at\":\"soon\"",
                   "\"created_at\":\"\""} -> <<"\"created_at\"">>
      [] tok \in {"\"completed_at\":\"2024-01-01\"", "\"completed_at\":\"soon\""}
            -> <<"\"completed_at\"">>
      [] OTHER -> <<"\"epic\"">>

\* content.split(':', 1)[0]
RECURSIVE SplitColon(_)
SplitColon(s) ==
    IF s = <<>> THEN <<>>
    ELSE IF HasColon(Head(s)) THEN BeforeColon(Head(s))
    ELSE <<Head(s)>> \o SplitColon(Tail(s))

-----------------------------------------------------------------------------
(* TodoParser: the two line patterns *)

Sections == {"Backlog", "To Do", "In Progress", "Completed"}

\* SECTION_PATTERN = ^##\s+(.+)$ : "##", at least one blank, at least one more
\* character.  The group is used only through strip().
SECTION_PATTERN(line) ==
    /\ Len(line) >= 4
    /\ line[1] = "#" /\ line[2] = "#" /\ line[3] = " "

section_name(line) == Strip(SubSeq(line, 4, Len(line)))

\* the index of the first token of line that is not a blank (Len + 1 if none)
RECURSIVE SkipBlanks(_, _)
SkipBlanks(line, i) ==
    IF i <= Len(line) /\ line[i] = " " THEN SkipBlanks(line, i + 1) ELSE i

\* TASK_PATTERN = ^\s*-\s+\[([ x])\]\s+(.+)$ : the index of the checkbox
\* token of a matching line, 0 when the line does not match
TaskBox(line) ==
    LET d == SkipBlanks(line, 1)
        c == SkipBlanks(line, d + 1)
    IN  IF /\ d <= Len(line) /\ line[d] = "-"
           /\ c > d + 1
           /\ c <= Len(line) /\ line[c] \in {"[ ]", "[x]"}
           /\ Len(line) >= c + 2 /\ line[c + 1] = " "
        THEN c ELSE 0

\* the pattern without its leading \s*: an indented list item is missed
TASK_PATTERN_NoIndent(line) == TaskBox(line) # 0 /\ line[1] = "-"

TASK_PATTERN(line) == TaskBox(line) # 0

\* the test of the group's presence instead of its value: true of every match
is_completed_Matched(line) == line[TaskBox(line)] \in {"[ ]", "[x]"}

\* task_match.group(1) == 'x'
is_completed(line) == line[TaskBox(line)] = "[x]"

\* task_match.group(2).strip()
task_text(line) == Strip(SubSeq(line, TaskBox(line) + 2, Len(line)))

\* a normalisation that falls back to Backlog at a heading it does not know
NormalizeSection_Reset(name, current_section) ==
    IF Contains(name, "Backlog") \/ Contains(name, "Not Yet") THEN "Backlog"
    ELSE IF Contains(name, "To Do") THEN "To Do"
    ELSE IF Contains(name, "In Progress") THEN "In Progress"
    ELSE IF Contains(name, "Completed") THEN "Completed"
    ELSE "Backlog"

\* the normalisation of a heading: the section it names, or the current one
NormalizeSection(name, current_section) ==
    IF Contains(name, "Backlog") \/ Contains(name, "Not Yet") THEN "Backlog"
    ELSE IF Contains(name, "To Do") THEN "To Do"
    ELSE IF Contains(name, "In Progress") THEN "In Progress"
    ELSE IF Contains(name, "Completed") THEN "Completed"
    ELSE current_section

-----------------------------------------------------------------------------
(* TodoParser._parse_task_content *)

\* re.search(r'\{[^}]+\}', content): <<start, end>> of the first match,
\* <<0, 0>> when there is none
JsonSearch(content) ==
    LET ok(i, j) == /\ content[i] = "{" /\ content[j] = "}" /\ j > i + 1
                    /\ \A k \in (i + 1)..(j - 1) : content[k] # "}"
        starts == {i \in 1..Len(content) : \E j \in 1..Len(content) : ok(i, j)}
    IN  IF starts = {} THEN <<0, 0>>
        ELSE LET i == CHOOSE x \in starts : \A y \in starts : x <= y
             IN  <<i, CHOOSE j \in 1..Len(content) : ok(i, j)>>

\* the members json.loads accepts, with the key and the value they carry
JsonMembers ==
    {"\"epic\":\"Launch\"", "\"epic\":\"\"", "\"epic\":\"W101\"",
     "\"occurrence_count\":3", "\"occurrence_count\":0",
     "\"created_at\":\"2024-01-01\"", "\"created_at\":\"soon\"", "\"created_at\":\"\"",
     "\"completed_at\":\"2024-01-01\"", "\"completed_at\":\"soon\""}

MemberKey(tok) ==
    CASE tok \in {"\"occurrence_count\":3", "\"occurrence_count\":0"} -> "occurrence_count"
      [] tok \in {"\"created_at\":\"2024-01-01\"", "\"created_at\":\"soon\"",
                  "\"created_at\":\"\""} -> "created_at"
      [] tok \in {"\"completed_at\":\"2024-01-01\"", "\"completed_at\":\"soon\""}
            -> "completed_at"
      [] OTHER -> "epic"

\* an epic is a text, an occurrence_count a number, a timestamp the string
\* between the quotes
MemberValue(tok) ==
    CASE tok = "\"epic\":\"Launch\"" -> <<"Launch">>
      [] tok = "\"epic\":\"\"" -> <<>>
      [] tok = "\"occurrence_count\":3" -> 3
      [] tok = "\"occurrence_count\":0" -> 0
      [] tok = "\"epic\":\"W101\"" -> <<"W101">>
      [] tok \in {"\"created_at\":\"2024-01-01\"", "\"completed_at\":\"2024-01-01\""}
            -> "2024-01-01"
      [] tok \in {"\"created_at\":\"soon\"", "\"completed_at\":\"soon\""} -> "soon"
      [] tok = "\"created_at\":\"\"" -> ""

NoBlanks(s) == SelectSeq(s, LAMBDA t : t # " ")

\* json.loads succeeds on "{" inner "}": inner is members separated by commas
\* (blanks are JSON whitespace), or nothing but blanks
JsonValid(inner) ==
    LET m == NoBlanks(inner)
    IN  \/ m = <<>>
        \/ /\ Len(m) % 2 = 1
           /\ \A i \in 1..Len(m) :
                IF i % 2 = 1 THEN m[i] \in JsonMembers ELSE m[i] = ","

\* metadata.get(key, None) on the decoded object: the last member wins
MetadataGet(inner, key) ==
    LET m == NoBlanks(inner)
        hits == {i \in 1..Len(m) : m[i] \in JsonMembers /\ MemberKey(m[i]) = key}
    IN  IF hits = {} THEN None
        ELSE Some(MemberValue(m[CHOOSE i \in hits : \A j \in hits : j <= i]))

PriorityMarkers == {"(high)", "(medium)", "(low)"}

PriorityOf(tok) ==
    CASE tok = "(high)" -> "high" [] tok = "(medium)" -> "medium" [] tok = "(low)" -> "low"

IdMarkers == {"(id:42)", "(id:7)"}

\* int(id_match.group(1))
IdOf(tok) == CASE tok = "(id:42)" -> 42 [] tok = "(id:7)" -> 7

\* the first token of s that is in markers, as an option
RECURSIVE FirstIn(_, _)
FirstIn(s, markers) ==
    IF s = <<>> THEN None
    ELSE IF Head(s) \in markers THEN Some(Head(s))
    ELSE FirstIn(Tail(s), markers)

\* re.sub(r'\s*MARKER', '', content): every marker goes, with the blanks
\* right before it
RECURSIVE ReSub(_, _, _)
ReSub(s, markers, out) ==
    IF s = <<>> THEN out
    ELSE IF Head(s) \in markers THEN ReSub(Tail(s), markers, RStrip(out))
    ELSE ReSub(Tail(s), markers, Append(out, Head(s)))

parse_task_content(content, section, completed, position) ==
    LET jm == JsonSearch(content)
        inner == SubSeq(content, jm[1] + 1, jm[2] - 1)
        loaded == jm[1] # 0 /\ JsonValid(inner)
        c1 == IF loaded THEN Strip(SubSeq(content, 1, jm[1] - 1)) ELSE content
        pm == FirstIn(c1, PriorityMarkers)
        priority == IF pm # None THEN PriorityOf(pm[1]) ELSE "medium"
        c2 == IF pm # None THEN ReSub(c1, PriorityMarkers, <<>>) ELSE c1
        im == FirstIn(c2, IdMarkers)
        task_id == IF im # None THEN Some(IdOf(im[1])) ELSE None
        c3 == IF im # None THEN ReSub(c2, IdMarkers, <<>>) ELSE c2
        meta_epic == IF loaded THEN MetadataGet(inner, "epic") ELSE None
        meta_count == IF loaded THEN MetadataGet(inner, "occurrence_count") ELSE None
        meta_created == IF loaded THEN MetadataGet(inner, "created_at") ELSE None
        meta_completed == IF loaded THEN MetadataGet(inner, "completed_at") ELSE None
        part0 == SplitColon(c3)
        epic == IF meta_epic # None /\ meta_epic[1] # <<>> THEN meta_epic
                ELSE IF \E i \in 1..Len(c3) : HasColon(c3[i])
                     THEN IF TextLen(part0) < 50 THEN Some(Strip(part0)) ELSE meta_epic
                     ELSE meta_epic
    IN  [original_id |-> task_id,
         content |-> Strip(c3),
         status |-> IF completed THEN "completed" ELSE "pending",
         priority |-> priority,
         section |-> section,
         epic |-> epic,
         area |-> "general",
         occurrence_count |-> IF meta_count # None THEN meta_count[1] ELSE 1,
         created_at |-> meta_created,
         completed_at |-> IF completed THEN meta_completed ELSE None,
         position |-> position]

-----------------------------------------------------------------------------
(* TodoParser.parse: the loop over the lines, from line i on *)

RECURSIVE ParseLoop(_, _, _, _, _)
ParseLoop(lines, i, current_section, position, acc) ==
    IF i > Len(lines) THEN acc
    ELSE IF SECTION_PATTERN(lines[i])
    THEN ParseLoop(lines, i + 1,
                   NormalizeSection(section_name(lines[i]), current_section),
                   0, acc)
    ELSE IF TASK_PATTERN(lines[i])
    THEN ParseLoop(lines, i + 1, current_section, position + 1,
                   Append(acc, parse_task_content(task_text(lines[i]), current_section,
                                                  is_completed(lines[i]), position)))
    ELSE ParseLoop(lines, i + 1, current_section, position, acc)

-----------------------------------------------------------------------------
(* DatabaseMigrator.migrate_tasks.  The session autoflushes (sessionmaker's  *)
(* default), so a query sees the rows the session has added; rows is the     *)
(* session's view of kanban_tasks, nid the next id, count migrated_count.    *)

\* a lookup by content alone
existing_ByContent(rows, task_data) ==
    \E r \in rows : r.content = task_data.content

\* a lookup that also compares the position
existing_WithPosition(rows, task_data) ==
    \E r \in rows : /\ r.content = task_data.content /\ r.section = task_data.section
                     /\ r.position = task_data.position

\* session.query(KanbanTask).filter_by(content=..., section=...).first()
existing(rows, task_data) ==
    \E r \in rows : r.content = task_data.content /\ r.section = task_data.section

\* func.now(): time is counted in the requests and migration runs served
now == 1 + api_calls + Len(migrated)

\* the strings datetime.fromisoformat accepts, and the instant it returns
\* (one before every value of now)
IsoFormat == {"2024-01-01"}

fromisoformat(value) == 0

\* a timestamp that is cleared when the override does not parse
Timestamp_Cleared(value, default) ==
    IF value # None /\ value[1] # "" /\ value[1] \in IsoFormat
    THEN Some(fromisoformat(value[1]))
    ELSE IF value # None /\ value[1] # "" THEN None ELSE default

\* if task_data.get(key): try: new_task.key = datetime.fromisoformat(...)
\* except: pass -- the override, or what the column holds without it
Timestamp(value, default) ==
    IF value # None /\ value[1] # "" /\ value[1] \in IsoFormat
    THEN Some(fromisoformat(value[1]))
    ELSE default

\* a row built without the record's section, left at the column's default
new_task_DefaultSection(task_data, id) ==
    [id |-> id,
     content |-> task_data.content,
     status |-> task_data.status,
     priority |-> task_data.priority,
     owner |-> "agent",
     section |-> "Backlog",
     epic |-> task_data.epic,
     area |-> task_data.area,
     occurrence_count |-> task_data.occurrence_count,
     created_at |-> Timestamp(task_data.created_at, Some(now)),
     completed_at |-> Timestamp(task_data.completed_at, None),
     position |-> task_data.position]

\* KanbanTask(...) as migrate_tasks builds it, with the id the flush gives it
new_task(task_data, id) ==
    [id |-> id,
     content |-> task_data.content,
     status |-> task_data.status,
     priority |-> task_data.priority,
     owner |-> "agent",
     section |-> task_data.section,
     epic |-> task_data.epic,
     area |-> task_data.area,
     occurrence_count |-> task_data.occurrence_count,
     created_at |-> Timestamp(task_data.created_at, Some(now)),
     completed_at |-> Timestamp(task_data.completed_at, None),
     position |-> task_data.position]

\* the NULL of a string column
NULL == "NULL"

\* what kanban_tasks takes at a flush: the NOT NULL columns, the four CHECK
\* constraints (which a NULL passes) and the length of String(100)
Accepts(row) ==
    /\ row.status \in {"pending", "completed"}
    /\ row.priority \in {"high", "medium", "low", NULL}
    /\ row.section \in Sections
    /\ row.owner \in {"user", "agent", NULL}
    /\ row.epic # None => TextLen(row.epic[1]) <= 100
    /\ row.created_at # None

\* an API request and its answer: the handler, the task id of the path, the
\* status code, the parameters or body of the request, the ids of the tasks
\* returned
Response(op, task_id, status_code, request, body) ==
    [op |-> op, task_id |-> task_id, status_code |-> status_code,
     request |-> request, body |-> body]

NoResponse == Response("none", 0, 0, [section |-> "Backlog"], <<>>)

\* no DatabaseMigrator yet
NoMigrator == [session |-> "none", i |-> 0, pending |-> {}, count |-> 0]

\* no secrets file and no backup on the disk, no script run yet
NoFiles ==
    [secrets |-> None, backup |-> None, backup_admin |-> None, runs |-> 0,
     returned |-> "none"]

\* no RailsAppTester
NoTester == [at |-> "none"]

\* no run of main against the shared store
NoMigrators == <<>>

\* a loop whose lookup sees only the rows committed before the batch
RECURSIVE MigrateLoop_Committed(_, _, _, _, _)
MigrateLoop_Committed(ts, i, rows, nid, count) ==
    IF i > Len(ts) THEN [rows |-> rows, nid |-> nid, count |-> count]
    ELSE IF existing(store, ts[i])
    THEN MigrateLoop_Committed(ts, i + 1, rows, nid, count)
    ELSE MigrateLoop_Committed(ts, i + 1, rows \cup {new_task(ts[i], nid)}, nid + 1,
                               count + 1)

\* the loop of migrate_tasks from record i on: the session flushes the rows
\* added so far before each query (autoflush), so the lookup sees them
RECURSIVE MigrateLoop(_, _, _, _, _)
MigrateLoop(ts, i, rows, nid, count) ==
    IF i > Len(ts) THEN [rows |-> rows, nid |-> nid, count |-> count]
    ELSE IF existing(rows, ts[i])
    THEN MigrateLoop(ts, i + 1, rows, nid, count)
    ELSE MigrateLoop(ts, i + 1, rows \cup {new_task(ts[i], nid)}, nid + 1, count + 1)

-----------------------------------------------------------------------------
(* The documents the specifications draw from *)

SeqsUpTo(S, n) == UNION {[1..k -> S] : k \in 0..n}

Heading(name) == <<"#", "#", " ">> \o name

TaskLine(box, body) == <<"-", " ", box, " ">> \o body

\* headings, task lines and text in between
OutlineLines ==
    {Heading(<<"To Do">>), Heading(<<"Notes">>),
     Heading(<<"Completed", " ", "To Do">>),
     <<"#", "#", "#", " ", "Completed">>,
     TaskLine("[ ]", <<"Ship">>), TaskLine("[x]", <<"Fix">>),
     <<>>, <<"Notes">>}

\* near misses of the two patterns
ShapeLines ==
    {<<"*", " ", "[ ]", " ", "Ship">>, <<"-", " ", "[X]", " ", "Ship">>,
     <<" ", "-", " ", " ", "[x]", " ", "Ship">>, <<"-", "[ ]", " ", "Ship">>,
     <<"-", " ", "[ ]", " ", " ">>, <<"-", " ", "[ ]", " ">>,
     <<"-", " ", "[ ]", "Ship">>,
     <<"#", "#", "Completed">>, <<"#", "#", " ">>, <<" ", "#", "#", " ", "Completed">>,
     Heading(<<"-", " ", "[ ]", " ", "Ship">>)}

\* the headings the normalisation knows, alone and combined
HeadingLines ==
    {Heading(<<"Backlog">>), Heading(<<"Not Yet">>), Heading(<<"In Progress">>),
     Heading(<<"Completed">>), Heading(<<"Completed", " ", "To Do">>),
     Heading(<<"In Progress", " ", "Tasks", " ", "Not Yet">>),
     Heading(<<"backlog">>), TaskLine("[ ]", <<"Ship">>)}

\* the chunks a task line's text is made of
Chunks ==
    {<<"Ship">>, <<":">>,
     <<" ", "(high)">>, <<" ", "(id:42)">>,
     <<" ", "{", "\"epic\":\"Launch\"", "}">>,
     <<" ", "{", "bad", "}">>,
     <<" ", "{", "\"epic\":\"a", "}", "b\"", "}">>}

RECURSIVE Concat(_)
Concat(ss) == IF ss = <<>> THEN <<>> ELSE Head(ss) \o Concat(Tail(ss))

Bodies == {Concat(cs) : cs \in SeqsUpTo(Chunks, MaxParts)}

\* one task line, alone or under a heading
TaskDocs ==
    {<<TaskLine("[ ]", b)>> : b \in Bodies}
    \cup {<<Heading(<<"In Progress">>), TaskLine("[x]", b)>> : b \in Bodies}

\* the chunks of a task line that carries metadata in its JSON
MetaChunks ==
    {<<"Ship">>, <<" ", "(high)">>,
     <<" ", "{", "\"occurrence_count\":3", "}">>,
     <<" ", "{", "\"occurrence_count\":0", "}">>,
     <<" ", "{", "\"epic\":\"Launch\"", ",", "\"occurrence_count\":3", "}">>,
     <<" ", "{", "\"epic\":\"Launch\"", "}">>}

MetaDocs ==
    {<<TaskLine("[ ]", Concat(cs))>> : cs \in SeqsUpTo(MetaChunks, MaxParts)}

ParseDocs ==
    SeqsUpTo(OutlineLines, MaxLines) \cup SeqsUpTo(ShapeLines, MaxLines)
    \cup SeqsUpTo(HeadingLines, MaxLines)

-----------------------------------------------------------------------------
(* The parser on its own: a document, any number of calls of parse *)

\* TodoParser.__init__
TodoParser ==
    /\ run # "new"
    /\ tasks' = <<>>
    /\ parsed' = <<>>
    /\ run' = "new"
    /\ migrator' = NoMigrator
    /\ UNCHANGED <<todo_file, store, next_id, migrated, api_calls, file_exists, backup,
                   response>>
    /\ UNCHANGED <<history, files, tester, migrators>>

\* TodoParser.parse: the records are appended to self.tasks, which is returned
\* a parse that reads a missing document as an empty one
parse_MissingAsEmpty ==
    /\ run # "migrating"
    /\ Len(parsed) < MaxCalls
    /\ tasks' = ParseLoop(IF file_exists THEN todo_file ELSE <<>>, 1, "Backlog", 0, tasks)
    /\ parsed' = Append(parsed, tasks')
    /\ run' = "parsed"
    /\ UNCHANGED <<todo_file, store, next_id, migrated, api_calls, file_exists, backup,
                   migrator, response>>
    /\ UNCHANGED <<history, files, tester, migrators>>

\* TodoParser.parse: FileNotFoundError when the document is missing; else the
\* records are appended to self.tasks, which is returned
parse ==
    /\ run # "migrating"
    /\ Len(parsed) < MaxCalls
    /\ IF file_exists
       THEN /\ tasks' = ParseLoop(todo_file, 1, "Backlog", 0, tasks)
            /\ parsed' = Append(parsed, tasks')
            /\ run' = "parsed"
       ELSE /\ run' = "not_found"
            /\ UNCHANGED <<tasks, parsed>>
    /\ UNCHANGED <<todo_file, store, next_id, migrated, api_calls, file_exists, backup,
                   migrator, response>>
    /\ UNCHANGED <<history, files, tester, migrators>>

InitParse ==
    /\ todo_file \in ParseDocs
    /\ tasks = <<>>
    /\ parsed = <<>>
    /\ run = "new"
    /\ store = {}
    /\ next_id = 1
    /\ migrated = <<>>
    /\ api_calls = 0
    /\ file_exists = TRUE
    /\ backup = FALSE
    /\ migrator = NoMigrator
    /\ response = NoResponse
    /\ history = {}
    /\ files = NoFiles
    /\ tester = NoTester
    /\ migrators = NoMigrators

NextParse == TodoParser \/ parse

\* documents of several lines
SpecParse == InitParse /\ [][NextParse]_vars

InitLine ==
    /\ todo_file \in TaskDocs
    /\ tasks = <<>>
    /\ parsed = <<>>
    /\ run = "new"
    /\ store = {}
    /\ next_id = 1
    /\ migrated = <<>>
    /\ api_calls = 0
    /\ file_exists = TRUE
    /\ backup = FALSE
    /\ migrator = NoMigrator
    /\ response = NoResponse
    /\ history = {}
    /\ files = NoFiles
    /\ tester = NoTester
    /\ migrators = NoMigrators

\* documents of one task line with any text
SpecLine == InitLine /\ [][NextParse]_vars

InitMeta ==
    /\ todo_file \in MetaDocs
    /\ tasks = <<>>
    /\ parsed = <<>>
    /\ run = "new"
    /\ store = {}
    /\ next_id = 1
    /\ migrated = <<>>
    /\ api_calls = 0
    /\ file_exists = TRUE
    /\ backup = FALSE
    /\ migrator = NoMigrator
    /\ response = NoResponse
    /\ history = {}
    /\ files = NoFiles
    /\ tester = NoTester
    /\ migrators = NoMigrators

\* documents of one task line with metadata
SpecMeta == InitMeta /\ [][NextParse]_vars

-----------------------------------------------------------------------------
(* The migration against the store: runs of main (a parser, parse,          *)
(* migrate_tasks) over one document, and tasks created through the API      *)

\* create_task of the kanban API: a new row at the end of its section
create_task ==
    /\ api_calls < MaxApi
    /\ \E content \in {<<"Ship">>}, section \in {"Backlog", "To Do"} :
         LET in_section == {r.position : r \in {x \in store : x.section = section}}
             max_position == IF in_section = {} THEN 0
                             ELSE CHOOSE m \in in_section : \A q \in in_section : q <= m
         IN  /\ store' = store \cup
                 {[id |-> next_id, content |-> content, status |-> "pending",
                   priority |-> "medium", owner |-> "agent", section |-> section,
                   epic |-> None, area |-> "general", occurrence_count |-> 1,
                   created_at |-> Some(now), completed_at |-> None,
                   position |-> max_position + 1]}
             /\ response' = Response("create_task", next_id, 201,
                                     [section |-> section], <<next_id>>)
    /\ next_id' = next_id + 1
    /\ api_calls' = api_calls + 1
    /\ UNCHANGED <<todo_file, tasks, parsed, run, migrated, file_exists, backup, migrator>>
    /\ UNCHANGED <<history, files, tester, migrators>>

\* DatabaseMigrator.migrate_tasks(tasks), as main calls it after parse, from
\* its first query to its commit; a row the table does not take fails the
\* flush, the exception leaves migrate_tasks and the transaction is lost
migrate_tasks ==
    /\ run = "parsed"
    /\ Len(migrated) < MaxRuns
    /\ LET done == MigrateLoop(tasks, 1, store, next_id, 0)
       IN  /\ next_id' = done.nid
           /\ IF \A r \in done.rows : Accepts(r)
              THEN /\ store' = done.rows
                   /\ migrated' = Append(migrated, done.count)
                   /\ run' = "migrated"
              ELSE /\ run' = "failed"
                   /\ UNCHANGED <<store, migrated>>
    /\ UNCHANGED <<todo_file, tasks, parsed, api_calls, file_exists, backup, migrator,
                   response>>
    /\ UNCHANGED <<history, files, tester, migrators>>

MigrateLines ==
    {Heading(<<"To Do">>), TaskLine("[ ]", <<"Ship">>), TaskLine("[x]", <<"Fix">>)}

InitMigrate ==
    /\ todo_file \in SeqsUpTo(MigrateLines, MaxLines)
    /\ tasks = <<>>
    /\ parsed = <<>>
    /\ run = "new"
    /\ store = {}
    /\ next_id = 1
    /\ migrated = <<>>
    /\ api_calls = 0
    /\ file_exists = TRUE
    /\ backup = FALSE
    /\ migrator = NoMigrator
    /\ response = NoResponse
    /\ history = {}
    /\ files = NoFiles
    /\ tester = NoTester
    /\ migrators = NoMigrators

NextMigrate == TodoParser \/ parse \/ migrate_tasks \/ create_task

SpecMigrate == InitMigrate /\ [][NextMigrate]_vars

-----------------------------------------------------------------------------
(* main, step by step: the parser and parse as above, then --dry-run or the  *)
(* migrator, its loop record by record, its commit, and the rename.  A new   *)
(* TodoParser is the next run of main; the one before may have stopped       *)
(* anywhere.                                                                 *)

\* if args.dry_run: return
dry_run ==
    /\ run = "parsed"
    /\ run' = "dry_run"
    /\ UNCHANGED <<todo_file, tasks, parsed, store, next_id, migrated, api_calls,
                   file_exists, backup, migrator, response>>
    /\ UNCHANGED <<history, files, tester, migrators>>

\* migrator = DatabaseMigrator(args.database_url): the session of the run
DatabaseMigrator ==
    /\ run = "parsed"
    /\ Len(migrated) < MaxRuns
    /\ next_id <= MaxIds
    /\ migrator' = [session |-> "open", i |-> 1, pending |-> {}, count |-> 0]
    /\ run' = "migrating"
    /\ UNCHANGED <<todo_file, tasks, parsed, store, next_id, migrated, api_calls,
                   file_exists, backup, response>>
    /\ UNCHANGED <<history, files, tester, migrators>>

\* the exception leaves migrate_tasks, main re-raises it, finally: close()
\* ends the session and with it the transaction
Raise ==
    /\ run' = "failed"
    /\ migrator' = [migrator EXCEPT !.session = "closed", !.pending = {}]

\* a loop that commits every record as it is added
migrate_loop_CommitEach ==
    /\ run = "migrating"
    /\ migrator.i <= Len(tasks)
    /\ LET task_data == tasks[migrator.i]
       IN  IF \E r \in migrator.pending : ~Accepts(r)
           THEN Raise /\ UNCHANGED <<store, next_id>>
           ELSE IF existing(store \cup migrator.pending, task_data)
           THEN /\ migrator' = [migrator EXCEPT !.i = @ + 1]
                /\ UNCHANGED <<run, store, next_id>>
           ELSE /\ migrator' = [migrator EXCEPT !.i = @ + 1, !.count = @ + 1]
                /\ store' = store \cup {new_task(task_data, next_id)}
                /\ next_id' = next_id + 1
                /\ UNCHANGED run
    /\ UNCHANGED <<todo_file, tasks, parsed, migrated, api_calls, file_exists, backup,
                   response>>
    /\ UNCHANGED <<history, files, tester, migrators>>

\* one turn of the loop of migrate_tasks: the query flushes what the session
\* holds (a row the table does not take raises there), then the record is
\* skipped or added to the session
migrate_loop ==
    /\ run = "migrating"
    /\ migrator.i <= Len(tasks)
    /\ LET task_data == tasks[migrator.i]
       IN  IF \E r \in migrator.pending : ~Accepts(r)
           THEN Raise /\ UNCHANGED next_id
           ELSE IF existing(store \cup migrator.pending, task_data)
           THEN /\ migrator' = [migrator EXCEPT !.i = @ + 1]
                /\ UNCHANGED <<run, next_id>>
           ELSE /\ migrator' = [migrator EXCEPT
                                  !.i = @ + 1, !.count = @ + 1,
                                  !.pending = @ \cup {new_task(task_data, next_id)}]
                /\ next_id' = next_id + 1
                /\ UNCHANGED run
    /\ UNCHANGED <<todo_file, tasks, parsed, store, migrated, api_calls, file_exists,
                   backup, response>>
    /\ UNCHANGED <<history, files, tester, migrators>>

\* self.session.commit() and return migrated_count, then main's finally
commit ==
    /\ run = "migrating"
    /\ migrator.i > Len(tasks)
    /\ IF \E r \in migrator.pending : ~Accepts(r)
       THEN Raise /\ UNCHANGED <<store, migrated>>
       ELSE /\ store' = store \cup migrator.pending
            /\ migrated' = Append(migrated, migrator.count)
            /\ migrator' = [migrator EXCEPT !.session = "closed", !.pending = {}]
            /\ run' = "migrated"
    /\ UNCHANGED <<todo_file, tasks, parsed, next_id, api_calls, file_exists, backup,
                   response>>
    /\ UNCHANGED <<history, files, tester, migrators>>

\* Path(args.todo_file).rename(backup_path)
rename ==
    /\ run = "migrated"
    /\ file_exists' = FALSE
    /\ backup' = TRUE
    /\ run' = "done"
    /\ UNCHANGED <<todo_file, tasks, parsed, store, next_id, migrated, api_calls, migrator,
                   response>>
    /\ UNCHANGED <<history, files, tester, migrators>>

\* task lines with timestamps that parse and that do not, and one whose epic
\* is longer than the column
MainLines ==
    {TaskLine("[ ]", <<"Ship">>),
     TaskLine("[x]", <<"Fix", " ", "{", "\"created_at\":\"2024-01-01\"", ",",
                       "\"completed_at\":\"soon\"", "}">>),
     TaskLine("[x]", <<"Ship", " ", "{", "\"created_at\":\"soon\"", ",",
                       "\"completed_at\":\"2024-01-01\"", "}">>),
     TaskLine("[ ]", <<"Fix", " ", "{", "\"epic\":\"W101\"", "}">>)}

InitMain ==
    /\ todo_file \in SeqsUpTo(MainLines, MaxLines)
    /\ tasks = <<>>
    /\ parsed = <<>>
    /\ run = "new"
    /\ store = {}
    /\ next_id = 1
    /\ migrated = <<>>
    /\ api_calls = 0
    /\ file_exists \in BOOLEAN
    /\ backup = FALSE
    /\ migrator = NoMigrator
    /\ response = NoResponse
    /\ history = {}
    /\ files = NoFiles
    /\ tester = NoTester
    /\ migrators = NoMigrators

NextMain ==
    TodoParser \/ parse \/ dry_run \/ DatabaseMigrator \/ migrate_loop \/ commit \/ rename

SpecMain == InitMain /\ [][NextMain]_vars

-----------------------------------------------------------------------------
(* The kanban API over the store, with one migration of a document into   *)
(* it.  Every handler loads the task, changes it, commits, and answers     *)
(* with a TaskResponse of the refreshed task's to_dict().                   *)

\* the ids the requests name
TaskIds == 1..2

Found(task_id) == \E r \in store : r.id = task_id

Task(task_id) == CHOOSE r \in store : r.id = task_id

\* TaskResponse takes the task: priority and owner are declared str
Serializable(row) == row.priority # NULL /\ row.owner # NULL

\* db.commit() of a changed task and the answer; a row the table does not
\* take raises at the flush and the session is closed without a commit
Commit(op, task_id, request, old, new) ==
    IF Accepts(new)
    THEN /\ store' = (store \ {old}) \cup {new}
         /\ response' = Response(op, task_id, IF Serializable(new) THEN 200 ELSE 500,
                                 request, IF Serializable(new) THEN <<task_id>> ELSE <<>>)
    ELSE /\ store' = store
         /\ response' = Response(op, task_id, 500, request, <<>>)

\* raise HTTPException(status_code=404)
NotFound(op, task_id, request) ==
    /\ store' = store
    /\ response' = Response(op, task_id, 404, request, <<>>)

\* GET /tasks/{task_id}
get_task ==
    /\ api_calls < MaxOps
    /\ \E task_id \in TaskIds :
         IF ~Found(task_id) THEN NotFound("get_task", task_id, [id |-> task_id])
         ELSE /\ store' = store
              /\ response' = IF Serializable(Task(task_id))
                              THEN Response("get_task", task_id, 200, [id |-> task_id],
                                            <<task_id>>)
                              ELSE Response("get_task", task_id, 500, [id |-> task_id], <<>>)
    /\ api_calls' = api_calls + 1
    /\ UNCHANGED <<todo_file, tasks, parsed, run, next_id, migrated, file_exists, backup,
                   migrator>>
    /\ UNCHANGED <<history, files, tester, migrators>>

\* a delete that keeps the row
delete_task_Keep ==
    /\ api_calls < MaxOps
    /\ \E task_id \in TaskIds :
         IF ~Found(task_id) THEN NotFound("delete_task", task_id, [id |-> task_id])
         ELSE /\ store' = store
              /\ response' = Response("delete_task", task_id, 204, [id |-> task_id], <<>>)
    /\ api_calls' = api_calls + 1
    /\ UNCHANGED <<todo_file, tasks, parsed, run, next_id, migrated, file_exists, backup,
                   migrator>>
    /\ UNCHANGED <<history, files, tester, migrators>>

\* DELETE /tasks/{task_id}: db.delete(task); db.commit(); the history rows of
\* the task go with it (cascade="all, delete-orphan", ondelete='CASCADE')
delete_task ==
    /\ api_calls < MaxOps
    /\ \E task_id \in TaskIds :
         IF ~Found(task_id)
         THEN /\ NotFound("delete_task", task_id, [id |-> task_id])
              /\ history' = history
         ELSE /\ store' = store \ {Task(task_id)}
              /\ history' = {h \in history : h.task_id # task_id}
              /\ response' = Response("delete_task", task_id, 204, [id |-> task_id], <<>>)
    /\ api_calls' = api_calls + 1
    /\ UNCHANGED <<todo_file, tasks, parsed, run, next_id, migrated, file_exists, backup,
                   migrator>>
    /\ UNCHANGED <<files, tester, migrators>>

\* the bodies of PUT /tasks/{id}: the fields that are set, null included
UpdateBodies ==
    {[priority |-> NULL], [status |-> "completed"],
     [content |-> <<"Fix">>, epic |-> Some(<<"Launch">>)],
     [owner |-> "user", area |-> "ops"]}

\* an update that replaces the task: a field that is not sent takes the
\* default of a new task
SetAttrs_Defaults(task, update_data) ==
    [task EXCEPT
        !.content = IF "content" \in DOMAIN update_data THEN update_data.content ELSE @,
        !.epic = IF "epic" \in DOMAIN update_data THEN update_data.epic ELSE None,
        !.area = IF "area" \in DOMAIN update_data THEN update_data.area ELSE "general",
        !.priority = IF "priority" \in DOMAIN update_data THEN update_data.priority
                     ELSE "medium",
        !.owner = IF "owner" \in DOMAIN update_data THEN update_data.owner ELSE "agent",
        !.status = IF "status" \in DOMAIN update_data THEN update_data.status ELSE "pending"]

\* for field, value in update_data.items(): setattr(task, field, value)
SetAttrs(task, update_data) ==
    [task EXCEPT
        !.content = IF "content" \in DOMAIN update_data THEN update_data.content ELSE @,
        !.epic = IF "epic" \in DOMAIN update_data THEN update_data.epic ELSE @,
        !.area = IF "area" \in DOMAIN update_data THEN update_data.area ELSE @,
        !.priority = IF "priority" \in DOMAIN update_data THEN update_data.priority ELSE @,
        !.owner = IF "owner" \in DOMAIN update_data THEN update_data.owner ELSE @,
        !.status = IF "status" \in DOMAIN update_data THEN update_data.status ELSE @]

update_task ==
    /\ api_calls < MaxOps
    /\ \E task_id \in TaskIds, task_data \in UpdateBodies :
         IF ~Found(task_id) THEN NotFound("update_task", task_id, task_data)
         ELSE LET task == SetAttrs(Task(task_id), task_data)
                  requested == IF "status" \in DOMAIN task_data THEN task_data.status
                               ELSE NULL
                  stamped == IF requested = "completed" /\ task.status # "completed"
                             THEN [task EXCEPT !.completed_at = Some(now)] ELSE task
              IN  Commit("update_task", task_id, task_data, Task(task_id), stamped)
    /\ api_calls' = api_calls + 1
    /\ UNCHANGED <<todo_file, tasks, parsed, run, next_id, migrated, file_exists, backup,
                   migrator>>
    /\ UNCHANGED <<history, files, tester, migrators>>

\* the bodies of POST /tasks/{id}/move
MoveBodies == {[section |-> "Completed", position |-> 0], [section |-> "To Do", position |-> 1]}

\* a move that leaves status and completed_at alone on the way out of
\* Completed
move_task_KeepStatus ==
    /\ api_calls < MaxOps
    /\ \E task_id \in TaskIds, move_data \in MoveBodies :
         IF ~Found(task_id) THEN NotFound("move_task", task_id, move_data)
         ELSE LET moved == [Task(task_id) EXCEPT !.section = move_data.section,
                                                 !.position = move_data.position]
                  into == IF move_data.section = "Completed" /\ moved.status # "completed"
                          THEN [moved EXCEPT !.status = "completed",
                                             !.completed_at = Some(now)]
                          ELSE moved
              IN  Commit("move_task", task_id, move_data, Task(task_id), into)
    /\ api_calls' = api_calls + 1
    /\ UNCHANGED <<todo_file, tasks, parsed, run, next_id, migrated, file_exists, backup,
                   migrator>>
    /\ UNCHANGED <<history, files, tester, migrators>>

move_task ==
    /\ api_calls < MaxOps
    /\ \E task_id \in TaskIds, move_data \in MoveBodies :
         IF ~Found(task_id) THEN NotFound("move_task", task_id, move_data)
         ELSE LET old_section == Task(task_id).section
                  moved == [Task(task_id) EXCEPT !.section = move_data.section,
                                                 !.position = move_data.position]
                  into == IF move_data.section = "Completed" /\ moved.status # "completed"
                          THEN [moved EXCEPT !.status = "completed",
                                             !.completed_at = Some(now)]
                          ELSE moved
                  out == IF old_section = "Completed" /\ move_data.section # "Completed"
                         THEN [into EXCEPT !.status = "pending", !.completed_at = None]
                         ELSE into
              IN  Commit("move_task", task_id, move_data, Task(task_id), out)
    /\ api_calls' = api_calls + 1
    /\ UNCHANGED <<todo_file, tasks, parsed, run, next_id, migrated, file_exists, backup,
                   migrator>>
    /\ UNCHANGED <<history, files, tester, migrators>>

update_priority ==
    /\ api_calls < MaxOps
    /\ \E task_id \in TaskIds, priority_data \in {[priority |-> "high"]} :
         IF ~Found(task_id) THEN NotFound("update_priority", task_id, priority_data)
         ELSE Commit("update_priority", task_id, priority_data, Task(task_id),
                     [Task(task_id) EXCEPT !.priority = priority_data.priority])
    /\ api_calls' = api_calls + 1
    /\ UNCHANGED <<todo_file, tasks, parsed, run, next_id, migrated, file_exists, backup,
                   migrator>>
    /\ UNCHANGED <<history, files, tester, migrators>>

\* a completion that also sends the task to the top of its new section
complete_task_ToTop ==
    /\ api_calls < MaxOps
    /\ \E task_id \in TaskIds :
         IF ~Found(task_id) THEN NotFound("complete_task", task_id, [section |-> "Completed"])
         ELSE Commit("complete_task", task_id, [section |-> "Completed"], Task(task_id),
                     [Task(task_id) EXCEPT !.status = "completed", !.section = "Completed",
                                           !.completed_at = Some(now), !.position = 0])
    /\ api_calls' = api_calls + 1
    /\ UNCHANGED <<todo_file, tasks, parsed, run, next_id, migrated, file_exists, backup,
                   migrator>>
    /\ UNCHANGED <<history, files, tester, migrators>>

complete_task ==
    /\ api_calls < MaxOps
    /\ \E task_id \in TaskIds :
         IF ~Found(task_id) THEN NotFound("complete_task", task_id, [section |-> "Completed"])
         ELSE Commit("complete_task", task_id, [section |-> "Completed"], Task(task_id),
                     [Task(task_id) EXCEPT !.status = "completed", !.section = "Completed",
                                           !.completed_at = Some(now)])
    /\ api_calls' = api_calls + 1
    /\ UNCHANGED <<todo_file, tasks, parsed, run, next_id, migrated, file_exists, backup,
                   migrator>>
    /\ UNCHANGED <<history, files, tester, migrators>>

\* the queries of GET /tasks that pass the validation of the parameters
\* (section, priority, status in their enumerations, 1 <= limit <= 500,
\* offset >= 0); None is a parameter that is not sent, Some(<<>>) an empty epic
ListQueries ==
    {[section |-> None, priority |-> None, status |-> None, epic |-> None,
      limit |-> 500, offset |-> 0],
     [section |-> None, priority |-> None, status |-> None, epic |-> None,
      limit |-> 1, offset |-> 1],
     [section |-> Some("Completed"), priority |-> None, status |-> Some("completed"),
      epic |-> None, limit |-> 2, offset |-> 0],
     [section |-> None, priority |-> Some("medium"), status |-> None,
      epic |-> Some(<<"Launch">>), limit |-> 1, offset |-> 0],
     [section |-> None, priority |-> None, status |-> None, epic |-> Some(<<>>),
      limit |-> 2, offset |-> 0]}

\* if section: ... if priority: ... if status: ... if epic: query.filter(...)
Filtered(rows, q) ==
    {r \in rows :
        /\ q.section # None => r.section = q.section[1]
        /\ q.priority # None => r.priority = q.priority[1]
        /\ q.status # None => r.status = q.status[1]
        /\ (q.epic # None /\ q.epic[1] # <<>>) => r.epic = q.epic}

\* the place of a section in ORDER BY section: the order of the strings
SectionRank(section) ==
    CASE section = "Backlog" -> 1 [] section = "Completed" -> 2
      [] section = "In Progress" -> 3 [] section = "To Do" -> 4

\* an ordering with the oldest task first
order_by_CreatedAsc(r1, r2) ==
    \/ SectionRank(r1.section) < SectionRank(r2.section)
    \/ /\ r1.section = r2.section
       /\ \/ r1.position < r2.position
          \/ r1.position = r2.position /\ r1.created_at[1] < r2.created_at[1]

\* order_by(section, position, created_at.desc()): r1 sorts before r2
order_by(r1, r2) ==
    \/ SectionRank(r1.section) < SectionRank(r2.section)
    \/ /\ r1.section = r2.section
       /\ \/ r1.position < r2.position
          \/ r1.position = r2.position /\ r1.created_at[1] > r2.created_at[1]

\* the orders the database may return rows in: ties come in any order
Orderings(rows) ==
    {f \in [1..Cardinality(rows) -> rows] :
        /\ \A r \in rows : \E i \in DOMAIN f : f[i] = r
        /\ \A i, j \in DOMAIN f : i < j => ~order_by(f[j], f[i])}

list_tasks ==
    /\ api_calls < MaxOps
    /\ \E q \in ListQueries :
         \E ordered \in Orderings(Filtered(store, q)) :
            LET last == IF q.offset + q.limit < Len(ordered) THEN q.offset + q.limit
                        ELSE Len(ordered)
                page == SubSeq(ordered, q.offset + 1, last)
            IN  response' =
                    IF \A k \in 1..Len(page) : Serializable(page[k])
                    THEN Response("list_tasks", 0, 200, q,
                                  [k \in 1..Len(page) |-> page[k].id])
                    ELSE Response("list_tasks", 0, 500, q, <<>>)
    /\ api_calls' = api_calls + 1
    /\ UNCHANGED <<todo_file, tasks, parsed, run, store, next_id, migrated, file_exists,
                   backup, migrator>>
    /\ UNCHANGED <<history, files, tester, migrators>>

\* the tasks a client of the models writes to the table directly
NewTasks ==
    {[status |-> "pending", priority |-> "low", section |-> "To Do", owner |-> "user"],
     [status |-> "invalid", priority |-> "low", section |-> "To Do", owner |-> "user"],
     [status |-> "pending", priority |-> "invalid", section |-> "To Do", owner |-> "user"],
     [status |-> "pending", priority |-> "low", section |-> "To Do", owner |-> "invalid"]}

\* db_session.add(KanbanTask(...)); db_session.commit(): the row is stored,
\* or the commit raises IntegrityError (answered here as 500) and nothing is
\* stored; the sequence has moved on either way
session_add ==
    /\ api_calls < MaxOps
    /\ \E fields \in NewTasks :
         LET task == [id |-> next_id, content |-> <<"Fix">>, status |-> fields.status,
                      priority |-> fields.priority, owner |-> fields.owner,
                      section |-> fields.section, epic |-> None, area |-> "general",
                      occurrence_count |-> 1, created_at |-> Some(now),
                      completed_at |-> None, position |-> 0]
         IN  IF Accepts(task)
             THEN /\ store' = store \cup {task}
                  /\ response' = Response("session_add", next_id, 200, fields, <<next_id>>)
             ELSE /\ store' = store
                  /\ response' = Response("session_add", next_id, 500, fields, <<>>)
    /\ next_id' = next_id + 1
    /\ api_calls' = api_calls + 1
    /\ UNCHANGED <<todo_file, tasks, parsed, run, migrated, file_exists, backup, migrator>>
    /\ UNCHANGED <<history, files, tester, migrators>>

\* the documents migrated into the store the API serves
ApiDocs ==
    {<<>>,
     <<TaskLine("[x]", <<"Fix">>)>>,
     <<TaskLine("[ ]", <<"Ship", " ", "{", "\"created_at\":\"2024-01-01\"", "}">>),
       Heading(<<"Notes">>),
       TaskLine("[ ]", <<"Fix">>)>>,
     <<Heading(<<"Completed">>),
       TaskLine("[x]", <<"Fix", " ", "{", "\"completed_at\":\"2024-01-01\"", "}">>),
       TaskLine("[ ]", <<"Ship", " ", "{", "\"epic\":\"Launch\"", "}">>)>>}

\* main has parsed its document and is about to migrate it
InitApi ==
    /\ todo_file \in ApiDocs
    /\ tasks = ParseLoop(todo_file, 1, "Backlog", 0, <<>>)
    /\ parsed = <<tasks>>
    /\ run = "parsed"
    /\ store = {}
    /\ next_id = 1
    /\ migrated = <<>>
    /\ api_calls = 0
    /\ file_exists = TRUE
    /\ backup = FALSE
    /\ migrator = NoMigrator
    /\ response = NoResponse
    /\ history = {}
    /\ files = NoFiles
    /\ tester = NoTester
    /\ migrators = NoMigrators

NextApi ==
    \/ migrate_tasks
    \/ create_task \/ update_task \/ move_task \/ update_priority \/ complete_task
    \/ list_tasks \/ session_add

SpecApi == InitApi /\ [][NextApi]_vars

\* a task that create_task stored before the requests the model follows
EarlierTask ==
    [id |-> 1, content |-> <<"Ship">>, status |-> "pending", priority |-> "medium",
     owner |-> "agent", section |-> "To Do", epic |-> None, area |-> "general",
     occurrence_count |-> 1, created_at |-> Some(0), completed_at |-> None,
     position |-> 1]

\* the API over a store no migration has written to: empty, or with one task
InitCrud ==
    /\ todo_file = <<>>
    /\ tasks = <<>>
    /\ parsed = <<>>
    /\ run = "new"
    /\ store \in {{}, {EarlierTask}}
    /\ next_id = Cardinality(store) + 1
    /\ migrated = <<>>
    /\ api_calls = 0
    /\ file_exists = FALSE
    /\ backup = FALSE
    /\ migrator = NoMigrator
    /\ response = NoResponse
    /\ history = {}
    /\ files = NoFiles
    /\ tester = NoTester
    /\ migrators = NoMigrators

NextCrud ==
    \/ create_task \/ get_task \/ update_task \/ move_task \/ update_priority
    \/ complete_task \/ delete_task

SpecCrud == InitCrud /\ [][NextCrud]_vars

\* the requests that create a task, move it, complete it and set its priority
NextBoard == create_task \/ move_task \/ update_priority \/ complete_task

\* tasks created through create_task and never changed through update_task
SpecBoard == InitCrud /\ [][NextBoard]_vars

-----------------------------------------------------------------------------
(* Two runs of main over the same document against one store, each with its *)
(* own DatabaseMigrator and session.  A query sees the committed rows and   *)
(* the rows its own session has flushed (the default isolation of the       *)
(* database, read committed); the table has no unique constraint on         *)
(* (content, section).                                                       *)

\* the two runs
Runs == 1..2

\* one turn of the loop of migrate_tasks in one of the runs
concurrent_migrate_loop ==
    /\ run = "migrating"
    /\ \E m \in Runs :
         /\ migrators[m].session = "open"
         /\ migrators[m].i <= Len(tasks)
         /\ LET task_data == tasks[migrators[m].i]
            IN  IF existing(store \cup migrators[m].pending, task_data)
                THEN /\ migrators' = [migrators EXCEPT ![m].i = @ + 1]
                     /\ UNCHANGED next_id
                ELSE /\ migrators' = [migrators EXCEPT
                                         ![m].i = @ + 1, ![m].count = @ + 1,
                                         ![m].pending = @ \cup {new_task(task_data, next_id)}]
                     /\ next_id' = next_id + 1
    /\ UNCHANGED <<todo_file, tasks, parsed, run, store, migrated, api_calls, file_exists,
                   backup, migrator, response, history, files, tester>>

\* self.session.commit() in one of the runs, its return and the close
concurrent_commit ==
    /\ run = "migrating"
    /\ \E m \in Runs :
         /\ migrators[m].session = "open"
         /\ migrators[m].i > Len(tasks)
         /\ store' = store \cup migrators[m].pending
         /\ migrated' = Append(migrated, migrators[m].count)
         /\ migrators' = [migrators EXCEPT ![m].session = "closed", ![m].pending = {}]
    /\ UNCHANGED <<todo_file, tasks, parsed, run, next_id, api_calls, file_exists,
                   backup, migrator, response, history, files, tester>>

\* both runs have parsed the document and built their migrator
InitRace ==
    /\ todo_file \in SeqsUpTo(MigrateLines, MaxLines)
    /\ tasks = ParseLoop(todo_file, 1, "Backlog", 0, <<>>)
    /\ parsed = <<tasks>>
    /\ run = "migrating"
    /\ store = {}
    /\ next_id = 1
    /\ migrated = <<>>
    /\ api_calls = 0
    /\ file_exists = TRUE
    /\ backup = FALSE
    /\ migrator = NoMigrator
    /\ response = NoResponse
    /\ history = {}
    /\ files = NoFiles
    /\ tester = NoTester
    /\ migrators = [m \in Runs |-> [session |-> "open", i |-> 1, pending |-> {},
                                      count |-> 0]]

NextRace == concurrent_migrate_loop \/ concurrent_commit

SpecRace == InitRace /\ [][NextRace]_vars

-----------------------------------------------------------------------------
(* The secrets scripts: update_secrets_file of update_secrets_for_postgres   *)
(* and update_secrets of add_admin_user, on .secrets.json.  A JSON object   *)
(* is a function from its keys.                                             *)

\* generate_secure_password(32): one of the passwords it may draw
Passwords == {"pw1", "pw2", "pw3"}

\* PASSWORD of add_admin_user
PASSWORD == "3e9z"

\* the entry update_secrets_file writes under databases
DatabaseEntry(db_password) ==
    [username |-> "postgres", password |-> db_password, host |-> "localhost",
     port |-> 5432, database |-> "hosting_production"]

\* the entry update_secrets writes under global_admin_users
AdminEntry ==
    [email |-> "brianmpauley@icloud.com", password |-> PASSWORD,
     postgres_superuser |-> TRUE, cigar_app_admin |-> TRUE, hosting_app_admin |-> TRUE,
     tobacco_app_admin |-> FALSE]

\* secrets_data[section][key] = entry, the section created when it is missing
SetEntry(secrets_data, section, key, entry) ==
    LET before == IF section \in DOMAIN secrets_data THEN secrets_data[section]
                  ELSE <<>>
    IN  (section :> ((key :> entry) @@ before)) @@ secrets_data

\* update_secrets_file(): False when the file is missing; else the entry is
\* put into the data read, and the data is dumped to the backup path and
\* then to the secrets path
update_secrets_file ==
    /\ files.runs < MaxScripts
    /\ IF files.secrets = None
       THEN files' = [files EXCEPT !.runs = @ + 1, !.returned = "False"]
       ELSE \E db_password \in Passwords :
              LET secrets_data == SetEntry(files.secrets[1], "databases",
                                           "hosting_production",
                                           DatabaseEntry(db_password))
              IN  files' = [files EXCEPT !.backup = Some(secrets_data),
                                         !.secrets = Some(secrets_data),
                                         !.runs = @ + 1,
                                         !.returned = db_password]
    /\ UNCHANGED <<todo_file, tasks, parsed, run, store, next_id, migrated, api_calls,
                   file_exists, backup, migrator, response, history, tester, migrators>>

\* update_secrets(): open raises when the file is missing; else as above
\* with the admin user and the .json.backup-admin path
update_secrets ==
    /\ files.runs < MaxScripts
    /\ IF files.secrets = None
       THEN files' = [files EXCEPT !.runs = @ + 1, !.returned = "FileNotFoundError"]
       ELSE LET secrets == SetEntry(files.secrets[1], "global_admin_users", "bpauley",
                                    AdminEntry)
            IN  files' = [files EXCEPT !.backup_admin = Some(secrets),
                                       !.secrets = Some(secrets),
                                       !.runs = @ + 1,
                                       !.returned = PASSWORD]
    /\ UNCHANGED <<todo_file, tasks, parsed, run, store, next_id, migrated, api_calls,
                   file_exists, backup, migrator, response, history, tester, migrators>>

\* what .secrets.json may hold before the scripts run
SecretsData ==
    {[api_token |-> "t"],
     [api_token |-> "t", databases |-> [cigar |-> DatabaseEntry("pw0")]],
     [api_token |-> "t", databases |-> [hosting_production |-> DatabaseEntry("pw0")]],
     [databases |-> <<>>, global_admin_users |-> [root |-> AdminEntry]]}

InitSecrets ==
    /\ todo_file = <<>>
    /\ tasks = <<>>
    /\ parsed = <<>>
    /\ run = "new"
    /\ store = {}
    /\ next_id = 1
    /\ migrated = <<>>
    /\ api_calls = 0
    /\ file_exists = FALSE
    /\ backup = FALSE
    /\ migrator = NoMigrator
    /\ response = NoResponse
    /\ history = {}
    /\ files \in {[NoFiles EXCEPT !.secrets = d] : d \in {None} \cup {Some(x) : x \in SecretsData}}
    /\ tester = NoTester
    /\ migrators = NoMigrators

NextSecrets == update_secrets_file \/ update_secrets

SpecSecrets == InitSecrets /\ [][NextSecrets]_vars

-----------------------------------------------------------------------------
(* RailsAppTester.run_tests of test_apps.py, request by request.  The app   *)
(* under test is the environment: it decides what every request answers.    *)

\* a path is a sequence of tokens; the routes `rails routes` may list
CigarsIndex == [verb |-> "GET", path |-> <<"/", "cigars">>, action |-> "cigars#index"]

CigarsCreate == [verb |-> "POST", path |-> <<"/", "cigars">>, action |-> "cigars#create"]

CigarsShow == [verb |-> "GET", path |-> <<"/", "cigars", "/", ":id">>, action |-> "cigars#show"]

SignIn ==
    [verb |-> "GET", path |-> <<"/", "users", "/", "sign_in">>, action |-> "sessions#new"]

Inventory ==
    [verb |-> "GET", path |-> <<"/api/", "inventory", "/", ":token">>,
     action |-> "api#inventory"]

Brands == [verb |-> "GET", path |-> <<"/", "brands">>, action |-> "brands#index"]

\* what get_routes may return: nothing when the command fails
RouteLists ==
    {<<>>, <<CigarsIndex>>, <<CigarsIndex, CigarsCreate, CigarsShow, Brands>>,
     <<SignIn, Brands, Inventory, CigarsIndex>>}

skip_patterns ==
    {"sign_in", "sign_out", "sign_up", "password", "rails/", "service-worker", "manifest",
     "/api/"}

\* the filter of run_tests: GET routes, no skipped pattern, no placeholder
Testable(route) ==
    /\ route.verb = "GET"
    /\ \A k \in 1..Len(route.path) : route.path[k] \notin skip_patterns
    /\ \A k \in 1..Len(route.path) : route.path[k] \notin {":id", ":token"}

\* TestSummary.add_result
add_result(summary, result) ==
    IF result.passed
    THEN [summary EXCEPT !.total_passed = @ + 1]
    ELSE [summary EXCEPT !.total_failed = @ + 1,
                         !.failures = Append(@, result.category)]

\* result = self.test_x(); self.print_test_result(result);
\* self.summary.add_result(result): the request made, the result printed
\* and added, the next place in run_tests
Tested(request, category, passed, next) ==
    tester' = [tester EXCEPT
                  !.requests = Append(@, request),
                  !.printed = Append(@, category),
                  !.summary = add_result(@, [category |-> category, passed |-> passed]),
                  !.at = next]

\* everything but the tester
NoTesting ==
    UNCHANGED <<todo_file, tasks, parsed, run, store, next_id, migrated, api_calls,
                file_exists, backup, migrator, response, history, files, migrators>>

\* RailsAppTester(app_config, workspace_root)
NewTester(has_api, credentials) ==
    [at |-> "health", has_api |-> has_api, credentials |-> credentials,
     logged_in |-> FALSE, requests |-> <<>>, printed |-> <<>>,
     summary |-> [total_passed |-> 0, total_failed |-> 0, failures |-> <<>>],
     testable_routes |-> <<>>, i |-> 0]

test_health_check ==
    /\ tester.at = "health"
    /\ \E passed \in BOOLEAN : Tested("GET /up", "Health", passed, "login_page")
    /\ NoTesting

test_login_page ==
    /\ tester.at = "login_page"
    /\ \E passed \in BOOLEAN : Tested("GET /users/sign_in", "Auth", passed, "login")
    /\ NoTesting

\* what login comes to: no email or password; the GET of the login page
\* raises or is not a 200; the page has no csrf-token; the POST raises or
\* lands on sign_in again; the POST lands elsewhere
LoginOutcomes(credentials) ==
    IF ~credentials THEN {"no_credentials"}
    ELSE {"no_page", "no_token", "rejected", "accepted"}

LoginRequests(outcome) ==
    CASE outcome = "no_credentials" -> <<>>
      [] outcome \in {"no_page", "no_token"} -> <<"session GET /users/sign_in">>
      [] OTHER -> <<"session GET /users/sign_in", "session POST /users/sign_in">>

\* a run_tests that goes on to the dashboard whatever login returns
login_Ignored ==
    /\ tester.at = "login"
    /\ \E outcome \in LoginOutcomes(tester.credentials) :
         tester' = [tester EXCEPT
                       !.requests = @ \o LoginRequests(outcome),
                       !.logged_in = (outcome = "accepted"),
                       !.at = "dashboard"]
    /\ NoTesting

\* if self.login(): ... else: return self.summary
login ==
    /\ tester.at = "login"
    /\ \E outcome \in LoginOutcomes(tester.credentials) :
         tester' = [tester EXCEPT
                       !.requests = @ \o LoginRequests(outcome),
                       !.logged_in = (outcome = "accepted"),
                       !.at = IF outcome = "accepted" THEN "dashboard" ELSE "returned"]
    /\ NoTesting

test_dashboard ==
    /\ tester.at = "dashboard"
    /\ \E passed \in BOOLEAN : Tested("session GET /", "Dashboard", passed, "routes")
    /\ NoTesting

\* routes = self.get_routes() and the filter to testable_routes
get_routes ==
    /\ tester.at = "routes"
    /\ \E routes \in RouteLists :
         tester' = [tester EXCEPT !.testable_routes = SelectSeq(routes, Testable),
                                  !.i = 1, !.at = "route"]
    /\ NoTesting

\* for route in testable_routes: one pass of the loop, or its end and the
\* branch on has_api
test_route ==
    /\ tester.at = "route"
    /\ IF tester.i <= Len(tester.testable_routes)
       THEN \E passed \in BOOLEAN :
              tester' = [tester EXCEPT
                  !.requests = Append(@, <<"session GET">> \o tester.testable_routes[tester.i].path),
                  !.printed = Append(@, "Routes"),
                  !.summary = add_result(@, [category |-> "Routes", passed |-> passed]),
                  !.i = @ + 1]
       ELSE tester' = [tester EXCEPT !.at = IF tester.has_api THEN "api" ELSE "returned"]
    /\ NoTesting

test_api_endpoint ==
    /\ tester.at = "api"
    /\ \E passed \in BOOLEAN :
         Tested("session GET /api/inventory/test_token", "API", passed, "returned")
    /\ NoTesting

InitTester ==
    /\ todo_file = <<>>
    /\ tasks = <<>>
    /\ parsed = <<>>
    /\ run = "new"
    /\ store = {}
    /\ next_id = 1
    /\ migrated = <<>>
    /\ api_calls = 0
    /\ file_exists = FALSE
    /\ backup = FALSE
    /\ migrator = NoMigrator
    /\ response = NoResponse
    /\ history = {}
    /\ files = NoFiles
    /\ tester \in {NewTester(has_api, credentials) :
                      has_api \in BOOLEAN, credentials \in BOOLEAN}
    /\ migrators = NoMigrators

NextTester ==
    \/ test_health_check \/ test_login_page \/ login \/ test_dashboard \/ get_routes
    \/ test_route \/ test_api_endpoint

SpecTester == InitTester /\ [][NextTester]_vars

-----------------------------------------------------------------------------
(* What the claims speak of, stated on the document itself *)

\* a list item with a checkbox followed by text: blanks, "-", blanks, "[ ]"
\* or "[x]", a blank, and at least one more character
CheckboxLine(line) ==
    \E d, c \in 1..Len(line) :
        /\ \A k \in 1..(d - 1) : line[k] = " "
        /\ line[d] = "-"
        /\ c >= d + 2
        /\ \A k \in (d + 1)..(c - 1) : line[k] = " "
        /\ line[c] \in {"[ ]", "[x]"}
        /\ Len(line) >= c + 2
        /\ line[c + 1] = " "

Marked(line) == \E c \in 1..Len(line) : line[c] = "[x]" /\ \A k \in 1..(c - 1) : line[k] \in {" ", "-"}

\* the indices of the task-checkbox lines of a document, in source order
RECURSIVE CheckboxIndices(_, _)
CheckboxIndices(doc, i) ==
    IF i > Len(doc) THEN <<>>
    ELSE IF CheckboxLine(doc[i]) THEN <<i>> \o CheckboxIndices(doc, i + 1)
    ELSE CheckboxIndices(doc, i + 1)

\* a level-2 heading: "##", blanks, text
HeadingLine(line) ==
    Len(line) >= 4 /\ line[1] = "#" /\ line[2] = "#" /\ line[3] = " "

\* the section a heading names: the first keyword found, in the order
\* Backlog / Not Yet, To Do, In Progress, Completed; "none" if it has none
HeadingSection(line) ==
    LET has(w) == \E k \in 4..Len(line) : line[k] = w
    IN  CASE has("Backlog") \/ has("Not Yet") -> "Backlog"
          [] ~(has("Backlog") \/ has("Not Yet")) /\ has("To Do") -> "To Do"
          [] ~(has("Backlog") \/ has("Not Yet") \/ has("To Do")) /\ has("In Progress")
                -> "In Progress"
          [] ~(has("Backlog") \/ has("Not Yet") \/ has("To Do") \/ has("In Progress"))
                /\ has("Completed") -> "Completed"
          [] OTHER -> "none"

\* the section of line i: that of the nearest recognized heading before it
SectionAt(doc, i) ==
    LET known == {j \in 1..(i - 1) : HeadingLine(doc[j]) /\ HeadingSection(doc[j]) # "none"}
    IN  IF known = {} THEN "Backlog"
        ELSE HeadingSection(doc[CHOOSE j \in known : \A k \in known : k <= j])

\* the first call of parse on a fresh parser has returned
FirstParse == Len(parsed) >= 1

\* the record of a task line parsed on its own
Alone(line) == ParseLoop(<<line>>, 1, "Backlog", 0, <<>>)

-----------------------------------------------------------------------------
(* C1: parse on a fresh parser emits exactly one record per task-checkbox    *)
(* line, in source order, whatever heading, blank or free-text lines lie     *)
(* in between.                                                               *)
C1_OneRecordPerCheckboxLine ==
    FirstParse =>
        LET idx == CheckboxIndices(todo_file, 1)
        IN  /\ Len(parsed[1]) = Len(idx)
            /\ \A k \in 1..Len(idx) :
                 /\ k <= Len(parsed[1])
                 /\ (parsed[1][k].status = "completed") = Marked(todo_file[idx[k]])
                 /\ Len(Alone(todo_file[idx[k]])) = 1
                 /\ parsed[1][k].content = Alone(todo_file[idx[k]])[1].content

C1_Witness ==
    /\ FirstParse
    /\ Len(parsed[1]) = 2
    /\ parsed[1][1].status # parsed[1][2].status
    /\ Len(todo_file) = 3
    /\ ~CheckboxLine(todo_file[2])

(* C2: for every section, the positions of the records parse emits with     *)
(* that section are 0, 1, 2, ... in source order.                            *)
C2_PositionsContiguous ==
    FirstParse =>
        \A k \in 1..Len(parsed[1]) :
            parsed[1][k].position =
                Cardinality({j \in 1..(k - 1) : parsed[1][j].section = parsed[1][k].section})

(* C3: every call of parse on the same parser over the unchanged document   *)
(* returns the record sequence the first call returned.                      *)
C3_ParseRestartable ==
    \A k \in 1..Len(parsed) : parsed[k] = parsed[1]

(* C10: every record's section is one of the four sections and is the       *)
(* normalisation (first keyword in the order Backlog / Not Yet, To Do, In    *)
(* Progress, Completed) of the nearest recognized level-2 heading before     *)
(* its line, Backlog when there is none; a heading line yields no record.    *)
C10_SectionOfNearestHeading ==
    FirstParse =>
        LET idx == CheckboxIndices(todo_file, 1)
        IN  /\ Len(parsed[1]) = Len(idx)
            /\ \A k \in 1..Len(idx) : ~HeadingLine(todo_file[idx[k]])
            /\ \A k \in 1..Len(parsed[1]) :
                 /\ parsed[1][k].section \in Sections
                 /\ k <= Len(idx) => parsed[1][k].section = SectionAt(todo_file, idx[k])

C10_Witness ==
    /\ FirstParse
    /\ todo_file = <<Heading(<<"Completed", " ", "To Do">>), Heading(<<"backlog">>),
                     TaskLine("[ ]", <<"Ship">>)>>
    /\ parsed[1][1].section = "To Do"

-----------------------------------------------------------------------------
(* The task lines of C7: '- [x] T (P) (id:N) {"epic":"E"}' *)

PlainTexts == {<<"Ship">>, <<"Ship", "Ship">>}

\* epic values, and the tokens that spell the value inside the quotes of
\* the JSON member "epic":"E"
EpicValues == {<<"Launch">>, <<"a", "}", "b">>}

EpicMember(E) ==
    IF E = <<"Launch">> THEN <<"\"epic\":\"Launch\"">>
    ELSE <<"\"epic\":\"a", "}", "b\"">>

FullLine(T, P, N, E) ==
    TaskLine("[x]", T \o <<" ", P, " ", N, " ", "{">> \o EpicMember(E) \o <<"}">>)

\* s holds f as a contiguous part
ContainsSeq(s, f) ==
    \E a \in 1..Len(s) : a + Len(f) - 1 <= Len(s) /\ SubSeq(s, a, a + Len(f) - 1) = f

(* C7: a task line '- [x] T (P) (id:N) {"epic":"E"}' under a heading that   *)
(* normalizes to section S yields a record with content T, status           *)
(* completed, priority P, original_id N, epic E and section S.              *)
C7_FullLineFields ==
    FirstParse =>
        \A T \in PlainTexts, P \in PriorityMarkers, N \in IdMarkers, E \in EpicValues :
            (/\ Len(todo_file) = 2
             /\ HeadingLine(todo_file[1])
             /\ HeadingSection(todo_file[1]) # "none"
             /\ todo_file[2] = FullLine(T, P, N, E))
            => /\ Len(parsed[1]) = 1
               /\ parsed[1][1].content = T
               /\ parsed[1][1].status = "completed"
               /\ parsed[1][1].priority = PriorityOf(P)
               /\ parsed[1][1].original_id = Some(IdOf(N))
               /\ parsed[1][1].epic = Some(E)
               /\ parsed[1][1].section = HeadingSection(todo_file[1])

(* C8: a task line whose {...} fragment is not valid JSON still yields its  *)
(* record, with no epic and occurrence_count 1, and the fragment is not in  *)
(* the content.                                                              *)
C8_MalformedJsonDiscarded ==
    FirstParse =>
        LET idx == CheckboxIndices(todo_file, 1)
        IN  \A k \in 1..Len(idx) :
              LET text == task_text(todo_file[idx[k]])
                  jm == JsonSearch(text)
                  span == SubSeq(text, jm[1], jm[2])
                  outside == SubSeq(text, 1, jm[1] - 1) \o SubSeq(text, jm[2] + 1, Len(text))
              IN  (jm[1] # 0 /\ ~JsonValid(SubSeq(text, jm[1] + 1, jm[2] - 1)))
                  => /\ k <= Len(parsed[1])
                     /\ parsed[1][k].occurrence_count = 1
                     /\ (\A a \in 1..Len(outside) : ~HasColon(outside[a]))
                            => parsed[1][k].epic = None
                     /\ ~ContainsSeq(parsed[1][k].content, span)

(* C9: every record parse emits has a non-empty content that holds no       *)
(* priority marker, no id marker and no inline JSON.                         *)
C9_ContentNonEmptyStripped ==
    FirstParse =>
        \A k \in 1..Len(parsed[1]) :
            /\ parsed[1][k].content # <<>>
            /\ \A a \in 1..Len(parsed[1][k].content) :
                 parsed[1][k].content[a] \notin PriorityMarkers \cup IdMarkers \cup JsonMembers

-----------------------------------------------------------------------------
\* a text without priority marker, id marker or inline JSON
PlainText(text) ==
    \A a \in 1..Len(text) : text[a] \notin PriorityMarkers \cup IdMarkers \cup {"{", "}"}

(* C11: a line '- [ ] T' whose T has no priority marker, no id marker and   *)
(* no JSON, before any heading, yields section Backlog, priority medium,    *)
(* status pending and no original_id; and a record's status is completed    *)
(* exactly when its checkbox is '[x]'.                                       *)
C11_PlainLineDefaults ==
    FirstParse =>
        LET idx == CheckboxIndices(todo_file, 1)
        IN  /\ Len(parsed[1]) = Len(idx)
            /\ \A k \in 1..Len(idx) :
                 LET line == todo_file[idx[k]]
                     box == CHOOSE c \in 1..Len(line) : line[c] \in {"[ ]", "[x]"}
                     T == SubSeq(line, box + 2, Len(line))
                 IN  /\ k <= Len(parsed[1])
                     /\ parsed[1][k].status \in {"pending", "completed"}
                     /\ (parsed[1][k].status = "completed") = (line[box] = "[x]")
                     /\ (/\ line[box] = "[ ]"
                         /\ PlainText(T)
                         /\ \A j \in 1..(idx[k] - 1) : ~HeadingLine(todo_file[j]))
                        => /\ parsed[1][k].section = "Backlog"
                           /\ parsed[1][k].priority = "medium"
                           /\ parsed[1][k].status = "pending"
                           /\ parsed[1][k].original_id = None

C11_Witness ==
    /\ FirstParse
    /\ todo_file = <<TaskLine("[ ]", <<"Ship", ":", "Ship">>)>>
    /\ Len(parsed[1]) = 1
    /\ parsed[1][1].priority = "medium"
    /\ parsed[1][1].original_id = None

\* the epic values the JSON objects '{"epic":"E"}' of a text supply
SuppliedEpics(text) ==
    {E \in EpicValues : ContainsSeq(text, <<"{">> \o EpicMember(E) \o <<"}">>)}

(* C12: a record's epic is the inline JSON's epic whenever the JSON         *)
(* supplies one; the text before the first colon of the stripped content,   *)
(* when shorter than 50 characters, is used only if the JSON supplied no    *)
(* epic; with neither, the epic is absent.                                   *)
C12_JsonEpicBeforeColonPrefix ==
    FirstParse =>
        LET idx == CheckboxIndices(todo_file, 1)
        IN  \A k \in 1..Len(idx) :
              LET text == task_text(todo_file[idx[k]])
                  opens == {a \in 1..Len(text) : text[a] = "{"}
                  content == parsed[1][k].content
                  prefix == SplitColon(content)
              IN  /\ k <= Len(parsed[1])
                  /\ \A E \in SuppliedEpics(text) :
                        Cardinality(opens) = 1 => parsed[1][k].epic = Some(E)
                  /\ SuppliedEpics(text) = {} =>
                        parsed[1][k].epic =
                            IF (\E a \in 1..Len(content) : HasColon(content[a]))
                               /\ TextLen(prefix) < 50
                            THEN Some(Strip(prefix)) ELSE None

\* the occurrence_count members of a text
CountMembers(text) ==
    {a \in 1..Len(text) : text[a] \in {"\"occurrence_count\":3", "\"occurrence_count\":0"}}

(* C13: every record's occurrence_count is a positive integer: 1 when the   *)
(* line has no inline JSON or its JSON has no occurrence_count, else the    *)
(* value the JSON carries, whatever that value is.                           *)
C13_OccurrenceCountPositive ==
    FirstParse =>
        LET idx == CheckboxIndices(todo_file, 1)
        IN  \A k \in 1..Len(idx) :
              LET text == task_text(todo_file[idx[k]])
                  opens == {a \in 1..Len(text) : text[a] = "{"}
              IN  /\ k <= Len(parsed[1])
                  /\ parsed[1][k].occurrence_count \in Nat \ {0}
                  /\ CountMembers(text) = {} => parsed[1][k].occurrence_count = 1
                  /\ \A a \in CountMembers(text) :
                        Cardinality(opens) = 1 =>
                            parsed[1][k].occurrence_count =
                                (IF text[a] = "\"occurrence_count\":3" THEN 3 ELSE 0)

-----------------------------------------------------------------------------
\* the call of migrate_tasks that returns the n-th value
Migrates(n) == Len(migrated) = n - 1 /\ Len(migrated') = n

SameKey(r, t) == r.content = t.content /\ r.section = t.section

(* C4: a record whose (content, section) equals that of a stored task is    *)
(* skipped by migrate_tasks: it is not counted and the stored tasks with    *)
(* that key stay as they are (nothing stored is removed or changed).        *)
C4_DuplicateSkipped ==
    [][\A n \in 1..MaxRuns + 1 : Migrates(n) =>
          LET collide == {i \in 1..Len(tasks) : \E r \in store : SameKey(r, tasks[i])}
          IN  /\ migrated'[n] <= Len(tasks) - Cardinality(collide)
              /\ store \subseteq store'
              /\ \A i \in collide :
                   {r \in store' : SameKey(r, tasks[i])} = {r \in store : SameKey(r, tasks[i])}
              /\ (Cardinality(collide) = Len(tasks)) => store' = store]_vars

C4_Witness ==
    /\ run = "migrated"
    /\ api_calls > 0
    /\ Len(migrated) = 1
    /\ Len(tasks) = 2
    /\ migrated[1] = 1
    /\ tasks[1].content # tasks[2].content

(* C5: parsing a document and migrating it into an empty store, then        *)
(* parsing and migrating it again: the second migrate_tasks returns 0 and   *)
(* leaves the store as the first pass left it.                               *)
C5_SecondPassIdempotent ==
    [][(Migrates(2) /\ api_calls = 0) => (migrated'[2] = 0 /\ store' = store)]_vars

C5_Witness ==
    /\ Len(migrated) = 2
    /\ api_calls = 0
    /\ migrated[1] = 2
    /\ Cardinality(store) = 2

(* C6: two records with the same content and different sections, migrated   *)
(* into an empty store, are both inserted: migrate_tasks returns 2 and both *)
(* are stored.                                                               *)
C6_KeyIncludesSection ==
    [][\A n \in 1..MaxRuns + 1 : (Migrates(n) /\ store = {}) =>
          \A i, j \in 1..Len(tasks) :
              (tasks[i].content = tasks[j].content /\ tasks[i].section # tasks[j].section)
              => /\ migrated'[n] >= 2
                 /\ Len(tasks) = 2 => migrated'[n] = 2
                 /\ \E r1, r2 \in store' :
                      /\ r1.id # r2.id
                      /\ SameKey(r1, tasks[i])
                      /\ SameKey(r2, tasks[j])]_vars

C6_Witness ==
    /\ run = "migrated"
    /\ api_calls = 0
    /\ Len(migrated) = 1
    /\ Len(tasks) = 2
    /\ tasks[1].content = tasks[2].content
    /\ tasks[1].section # tasks[2].section
    /\ migrated[1] = 2

-----------------------------------------------------------------------------
\* the step of main at which migrate_tasks commits and returns
Commits == run = "migrating" /\ run' = "migrated"

\* the records of the batch that are the first of their key and meet no
\* stored task
Fresh == {i \in 1..Len(tasks) :
            /\ ~\E r \in store : SameKey(r, tasks[i])
            /\ ~\E j \in 1..(i - 1) : SameKey(tasks[j], tasks[i])}

\* the one timestamp of the documents that is ISO-8601
ParsesIso(value) == value = Some("2024-01-01")

(* C14: migrate_tasks applies a created_at / completed_at override only     *)
(* when it is present and parses as ISO-8601; when it does not parse, the   *)
(* failure is swallowed: the field keeps the store's default, the record is *)
(* still inserted and counted, and the rest of the batch is processed.      *)
C14_BadTimestampSwallowed ==
    [][/\ Commits =>
            /\ migrated'[Len(migrated')] = Cardinality(Fresh)
            /\ \A i \in Fresh :
                 \E r \in store' \ store :
                    /\ SameKey(r, tasks[i])
                    /\ r.created_at = IF ParsesIso(tasks[i].created_at)
                                      THEN Some(0) ELSE Some(now)
                    /\ r.completed_at = IF ParsesIso(tasks[i].completed_at)
                                        THEN Some(0) ELSE None
       /\ (run = "migrating" /\ run' = "failed") =>
            \E i \in 1..Len(tasks) :
                tasks[i].epic # None /\ TextLen(tasks[i].epic[1]) > 100]_vars

C14_Witness ==
    /\ run = "migrated"
    /\ Len(tasks) = 2
    /\ tasks[1].created_at = Some("soon")
    /\ tasks[2].completed_at = Some("soon")
    /\ Cardinality(store) = 2
    /\ \E r \in store : r.created_at = Some(1) /\ r.completed_at = Some(0)
    /\ \E r \in store : r.created_at = Some(0) /\ r.completed_at = None

(* C15: when the document does not exist, the run fails with a not-found    *)
(* error before any store interaction: no session is opened, no query or    *)
(* insert is issued, and no file is renamed.                                 *)
C15_MissingDocumentTouchesNothing ==
    [][/\ (run = "new" /\ ~file_exists /\ run' # "new") =>
            /\ run' = "not_found"
            /\ UNCHANGED <<store, next_id, migrated, file_exists, backup, migrator>>
       /\ (run' = "not_found" /\ parsed' = <<>>) =>
            (migrator'.session = "none" /\ migrator'.i = 0)
       /\ run = "not_found" =>
            (run' = "new" \/ UNCHANGED <<store, next_id, migrated, file_exists, backup>>)]_vars

C15_Witness ==
    /\ run = "not_found"
    /\ parsed = <<>>
    /\ backup
    /\ store # {}
    /\ migrator.session = "none"

(* C16: migrate_tasks persists the batch with one commit after every record *)
(* is processed: before it nothing is durably stored, a failure mid-batch   *)
(* leaves the committed store as it was before the call, and on success the *)
(* returned count is the number of records the commit added.                 *)
C16_SingleCommit ==
    [][/\ (run = "parsed" /\ run' = "migrating") => store' = store
       /\ (run = "migrating" /\ run' \in {"migrating", "failed", "new"}) => store' = store
       /\ Commits =>
            /\ migrator.i > Len(tasks)
            /\ store \subseteq store'
            /\ migrated'[Len(migrated')] = Cardinality(store' \ store)]_vars

C16_Witness ==
    /\ run = "failed"
    /\ migrator.i = 2
    /\ Len(tasks) = 3
    /\ migrator.count = 1
    /\ store = {}

-----------------------------------------------------------------------------
\* the request op has just been served and answered with status_code
Served(op, status_code) ==
    /\ api_calls' = api_calls + 1
    /\ response'.op = op
    /\ response'.status_code = status_code

\* the task of the request before and after it
Before == CHOOSE r \in store : r.id = response'.task_id

After == CHOOSE r \in store' : r.id = response'.task_id

(* C17: the store rejects, with a constraint violation and without storing  *)
(* anything, every task whose status, priority, section or owner is outside *)
(* its enumeration; so every stored task has all four fields inside their   *)
(* enumerations.                                                             *)
C17_StoredFieldsInEnumerations ==
    [][/\ \A fields \in NewTasks :
            (/\ Served("session_add", response'.status_code)
             /\ response'.request = fields
             /\ \/ fields.status \notin {"pending", "completed"}
                \/ fields.priority \notin {"high", "medium", "low"}
                \/ fields.section \notin {"Backlog", "To Do", "In Progress", "Completed"}
                \/ fields.owner \notin {"user", "agent"})
            => (response'.status_code = 500 /\ store' = store)
       /\ \A r \in store' :
            /\ r.status \in {"pending", "completed"}
            /\ r.priority \in {"high", "medium", "low"}
            /\ r.section \in {"Backlog", "To Do", "In Progress", "Completed"}
            /\ r.owner \in {"user", "agent"}]_vars

(* C18: after move_task succeeds, whatever the task's state before: moved   *)
(* into Completed it has status completed and a completed_at; moved out of  *)
(* Completed it has status pending and no completed_at; its section and     *)
(* position are the requested ones.                                          *)
C18_MoveSetsStatus ==
    [][Served("move_task", 200) =>
          /\ After.section = response'.request.section
          /\ After.position = response'.request.position
          /\ response'.request.section = "Completed" =>
                (After.status = "completed" /\ After.completed_at # None)
          /\ (Before.section = "Completed" /\ response'.request.section # "Completed") =>
                (After.status = "pending" /\ After.completed_at = None)]_vars

(* C19: after complete_task succeeds on an existing task, whatever its      *)
(* section and status before, it has status completed, section Completed    *)
(* and a completed_at, and its content, priority, owner, epic, area and     *)
(* position are unchanged.                                                   *)
C19_CompleteKeepsRest ==
    [][Served("complete_task", 200) =>
          /\ After.status = "completed"
          /\ After.section = "Completed"
          /\ After.completed_at # None
          /\ After.content = Before.content
          /\ After.priority = Before.priority
          /\ After.owner = Before.owner
          /\ After.epic = Before.epic
          /\ After.area = Before.area
          /\ After.position = Before.position
          /\ store' \ {After} = store \ {Before}]_vars

C19_Witness ==
    /\ response.op = "complete_task"
    /\ response.status_code = 200
    /\ \E r \in store :
         /\ r.id = response.task_id
         /\ r.content = <<"Ship">>
         /\ r.created_at = Some(0)
         /\ r.position = 0
         /\ r.section = "Completed"
         /\ r.status = "completed"
         /\ r.completed_at # None

\* r1 comes before r2 by section, then position, then created_at descending
ComesFirst(r1, r2) ==
    LET place(sec) == CHOOSE k \in 1..4 :
                          <<"Backlog", "Completed", "In Progress", "To Do">>[k] = sec
    IN  \/ place(r1.section) < place(r2.section)
        \/ r1.section = r2.section /\ r1.position < r2.position
        \/ /\ r1.section = r2.section /\ r1.position = r2.position
           /\ r1.created_at[1] > r2.created_at[1]

\* the stored tasks that satisfy the filters a query supplies (a parameter
\* that is sent with a value)
Matching(q) ==
    {r \in store :
        /\ q.section \notin {None, Some("")} => r.section = q.section[1]
        /\ q.priority \notin {None, Some("")} => r.priority = q.priority[1]
        /\ q.status \notin {None, Some("")} => r.status = q.status[1]
        /\ q.epic \notin {None, Some(<<>>)} => r.epic = q.epic}

(* C20: list_tasks returns only tasks that satisfy every supplied filter    *)
(* (section, priority, status, epic), at most limit of them (limit in       *)
(* 1..500, offset at least 0), and exactly those at ranks offset ..         *)
(* offset+limit-1 of the matching tasks ordered by section, then position,  *)
(* then created_at descending.                                               *)
C20_ListFilteredPage ==
    [][Served("list_tasks", 200) =>
          LET q == response'.request
              body == response'.body
              n == Cardinality(Matching(q))
              row(k) == CHOOSE r \in store : r.id = body[k]
          IN  /\ q.limit \in 1..500 /\ q.offset >= 0
              /\ Len(body) <= q.limit
              /\ Len(body) = IF n <= q.offset THEN 0
                             ELSE IF n - q.offset < q.limit THEN n - q.offset ELSE q.limit
              /\ \A k \in 1..Len(body) :
                    /\ \E r \in Matching(q) : r.id = body[k]
                    /\ \A j \in 1..Len(body) : body[j] = body[k] => j = k
                    /\ Cardinality({m \in Matching(q) : ComesFirst(m, row(k))})
                          <= q.offset + k - 1
                    /\ Cardinality({m \in Matching(q) : ~ComesFirst(row(k), m)})
                          >= q.offset + k]_vars

C20_Witness ==
    /\ response.op = "list_tasks"
    /\ response.status_code = 200
    /\ response.request.limit = 500
    /\ Len(response.body) = 2
    /\ \E r1, r2 \in store :
         /\ r1.id = response.body[1] /\ r2.id = response.body[2]
         /\ r1.section = r2.section /\ r1.position = r2.position
         /\ r1.created_at[1] > r2.created_at[1]

-----------------------------------------------------------------------------
\* the handlers that look a task up by the id of the path
ByIdOps ==
    {"get_task", "update_task", "move_task", "update_priority", "complete_task",
     "delete_task"}

(* C21: once delete_task has succeeded for an id, and for an id that never  *)
(* existed, every get, update, move, priority, complete and delete request  *)
(* for the id answers 404 and leaves the store as it is; ids the store has  *)
(* assigned are not assigned again by later creates.                         *)
C21_DeletedAnswers404 ==
    [][/\ \A id \in TaskIds :
            (/\ ~Found(id)
             /\ api_calls' = api_calls + 1
             /\ response'.op \in ByIdOps
             /\ response'.task_id = id)
            => (response'.status_code = 404 /\ store' = store)
       /\ Served("delete_task", 204) =>
            /\ \A r \in store' : r.id # response'.task_id
            /\ response'.task_id < next_id'
       /\ \A r \in store' : (\E q \in store : q.id = r.id) \/ r.id >= next_id
       /\ next_id' >= next_id]_vars

C21_Witness ==
    /\ response.op = "get_task"
    /\ response.status_code = 404
    /\ response.task_id = 1
    /\ next_id = 3
    /\ \E r \in store : r.id = 2
    /\ \A r \in store : r.id # 1

-----------------------------------------------------------------------------
\* the entries of the audit log that belong to a task
HistoryOf(rows, task_id) == {h \in rows : h.task_id = task_id}

(* C22: every modification of a task through the API (update, move,         *)
(* priority change, complete) adds an entry for the task to the             *)
(* task-history audit log.                                                   *)
C22_ModificationsAudited ==
    [][\A op \in {"update_task", "move_task", "update_priority", "complete_task"} :
          Served(op, 200) =>
              Cardinality(HistoryOf(history', response'.task_id))
                  > Cardinality(HistoryOf(history, response'.task_id))]_vars

-----------------------------------------------------------------------------
(* C23: when update_task changes a task's status from pending to completed, *)
(* the task's completed_at is set to the current time: after the update the *)
(* task has status completed and a completed_at.                             *)
C23_UpdateStampsCompletedAt ==
    [][(/\ Served("update_task", 200)
        /\ "status" \in DOMAIN response'.request
        /\ response'.request.status = "completed"
        /\ Before.status = "pending")
       => (After.status = "completed" /\ After.completed_at # None)]_vars

-----------------------------------------------------------------------------
\* the fields a body of update_task may carry
UpdateFields == {"content", "priority", "owner", "status", "epic", "area"}

(* C24: update_task changes only the fields the request supplies: each      *)
(* supplied field takes the supplied value, and every field that is not     *)
(* supplied among content, priority, owner, status, epic and area, as well  *)
(* as id, section, position and created_at, keeps its earlier value.        *)
C24_UpdateOnlySupplied ==
    [][(/\ api_calls' = api_calls + 1
        /\ response'.op = "update_task"
        /\ (response'.status_code = 200 \/ store' # store))
       => /\ \A f \in UpdateFields :
               After[f] = IF f \in DOMAIN response'.request THEN response'.request[f]
                          ELSE Before[f]
          /\ \A f \in {"id", "section", "position", "created_at"} : After[f] = Before[f]
          /\ \A r \in store' : r.id # response'.task_id => r \in store
          /\ \A r \in store : r.id # response'.task_id => r \in store']_vars

C24_Witness ==
    /\ response.op = "update_task"
    /\ response.status_code = 200
    /\ response.request = [content |-> <<"Fix">>, epic |-> Some(<<"Launch">>)]
    /\ \E r \in store :
         /\ r.id = response.task_id
         /\ r.content = <<"Fix">>
         /\ r.epic = Some(<<"Launch">>)
         /\ r.priority = "high"
         /\ r.section = "Completed"

-----------------------------------------------------------------------------
(* C25: after update_secrets_file, or update_secrets of add_admin_user, has *)
(* run on an existing secrets file, the backup file holds the content the   *)
(* secrets file had before the run, without the credentials the run adds,   *)
(* and the secrets file holds the updated content.                           *)
C25_BackupHoldsOriginal ==
    [][(files'.runs = files.runs + 1 /\ files.secrets # None) =>
          /\ files'.returned \in Passwords =>
                /\ files'.backup = files.secrets
                /\ files'.secrets[1].databases.hosting_production
                       = DatabaseEntry(files'.returned)
          /\ files'.returned = PASSWORD =>
                /\ files'.backup_admin = files.secrets
                /\ files'.secrets[1].global_admin_users.bpauley = AdminEntry]_vars

-----------------------------------------------------------------------------
\* the requests run_tests makes before login, and those login may make
Unauthenticated == {"GET /up", "GET /users/sign_in"}

LoginOnly == {"session GET /users/sign_in", "session POST /users/sign_in"}

\* the requests of s from the first that is not in S on
RECURSIVE DropWhileIn(_, _)
DropWhileIn(s, S) ==
    IF s # <<>> /\ Head(s) \in S THEN DropWhileIn(Tail(s), S) ELSE s

\* the requests and the results that follow the login
AfterLogin(requests) == DropWhileIn(DropWhileIn(requests, Unauthenticated), LoginOnly)

IsPrefix(s, t) == Len(s) <= Len(t) /\ SubSeq(t, 1, Len(s)) = s

\* what follows a successful login when run_tests has returned
Authenticated(t) ==
    <<"session GET /">>
    \o [k \in 1..Len(t.testable_routes) |-> <<"session GET">> \o t.testable_routes[k].path]
    \o (IF t.has_api THEN <<"session GET /api/inventory/test_token">> ELSE <<>>)

AuthenticatedResults(t) ==
    <<"Dashboard">> \o [k \in 1..Len(t.testable_routes) |-> "Routes"]
    \o (IF t.has_api THEN <<"API">> ELSE <<>>)

(* C26: in run_tests the authenticated tests run only after a successful    *)
(* login.  When login fails, run_tests returns a summary that holds the     *)
(* results of the health check and of the login page and no other, and no   *)
(* dashboard, route or API request has been made; when login succeeds, the  *)
(* dashboard test, then the route tests, then the API test (of an app that  *)
(* has an API) follow, in that order.                                        *)
C26_AuthenticatedTestsAfterLogin ==
    tester.at # "none" =>
        /\ tester.summary.total_passed + tester.summary.total_failed = Len(tester.printed)
        /\ AfterLogin(tester.requests) # <<>> => tester.logged_in
        /\ (tester.at = "returned" /\ ~tester.logged_in) =>
              /\ tester.printed = <<"Health", "Auth">>
              /\ AfterLogin(tester.requests) = <<>>
        /\ tester.logged_in =>
              /\ IsPrefix(tester.printed, <<"Health", "Auth">> \o AuthenticatedResults(tester))
                  \/ tester.at \in {"dashboard", "routes"}
              /\ tester.at \in {"route", "api", "returned"} =>
                    IsPrefix(AfterLogin(tester.requests), Authenticated(tester))
              /\ tester.at = "returned" =>
                    /\ AfterLogin(tester.requests) = Authenticated(tester)
                    /\ tester.printed = <<"Health", "Auth">> \o AuthenticatedResults(tester)

C26_WitnessAccepted ==
    /\ tester.at = "returned"
    /\ tester.logged_in
    /\ tester.has_api
    /\ Len(tester.testable_routes) = 2
    /\ tester.summary.total_failed = 2

C26_Witness ==
    /\ tester.at = "returned"
    /\ ~tester.logged_in
    /\ tester.credentials
    /\ Len(tester.requests) = 4

-----------------------------------------------------------------------------
\* the identity key of a record or of a stored task
Key(r) == <<r.content, r.section>>

\* no two of the rows have the same key
DistinctKeys(rows) == \A r1, r2 \in rows : Key(r1) = Key(r2) => r1 = r2

(* C27: migrate_tasks on a store whose tasks have pairwise distinct         *)
(* (content, section) keys leaves the keys pairwise distinct: a record      *)
(* whose key is that of a record inserted earlier in the same batch is      *)
(* skipped, and the returned count is the number of distinct keys of the    *)
(* batch that were not in the store.                                         *)
C27_BatchDuplicatesSkipped ==
    [][\A n \in 1..MaxRuns + 1 : (Migrates(n) /\ DistinctKeys(store)) =>
          /\ DistinctKeys(store')
          /\ migrated'[n] =
                Cardinality({Key(tasks[i]) : i \in 1..Len(tasks)} \ {Key(r) : r \in store})
          /\ Cardinality(store') = Cardinality(store) + migrated'[n]]_vars

C27_Witness ==
    /\ run = "migrated"
    /\ Len(migrated) = 1
    /\ Len(tasks) = 3
    /\ Key(tasks[1]) = Key(tasks[3])
    /\ Key(tasks[1]) # Key(tasks[2])
    /\ migrated[1] = 2
    /\ Cardinality(store) = 2

-----------------------------------------------------------------------------
(* C28: a task created through create_task in a section other than          *)
(* Completed and changed since only by move_task, complete_task and         *)
(* update_priority has, in every reachable state, section Completed if and  *)
(* only if status completed if and only if a completed_at.                   *)
C28_CompletedTriple ==
    \A r \in store :
        /\ (r.section = "Completed") = (r.status = "completed")
        /\ (r.status = "completed") = (r.completed_at # None)

C28_Witness ==
    /\ response.op = "move_task"
    /\ response.status_code = 200
    /\ response.request.section = "To Do"
    /\ \E r \in store :
         /\ r.id = response.task_id
         /\ r.section = "To Do"
         /\ r.status = "pending"
         /\ r.completed_at = None
    /\ \E r \in store :
         /\ r.id # response.task_id
         /\ r.section = "Completed"
         /\ r.status = "completed"
         /\ r.completed_at # None

-----------------------------------------------------------------------------
\* the JSON objects '{"epic":"E"}' a text may carry, as their tokens
EpicObjects == {<<"{">> \o EpicMember(E) \o <<"}">> : E \in EpicValues}

\* the places where text splits into the text before its first '{', a JSON
\* object and the rest
JsonSplits(text) ==
    {a \in 1..Len(text) :
        /\ \A b \in 1..(a - 1) : text[b] # "{"
        /\ \E J \in EpicObjects :
             a + Len(J) - 1 <= Len(text) /\ SubSeq(text, a, a + Len(J) - 1) = J}

(* C29: when the '{...}' fragment of a task line is valid JSON, priority    *)
(* and original_id come from the markers in the text before the JSON only,  *)
(* and neither the JSON nor the text after it is in the content or has a    *)
(* part in priority or original_id.                                          *)
C29_JsonExtractedFirst ==
    FirstParse =>
        LET idx == CheckboxIndices(todo_file, 1)
        IN  \A k \in 1..Len(idx) :
              LET text == task_text(todo_file[idx[k]])
              IN  \A a \in JsonSplits(text) :
                    LET pre == SubSeq(text, 1, a - 1)
                        pm == FirstIn(pre, PriorityMarkers)
                        im == FirstIn(pre, IdMarkers)
                        content == parsed[1][k].content
                    IN  /\ k <= Len(parsed[1])
                        /\ parsed[1][k].priority =
                              (IF pm # None THEN PriorityOf(pm[1]) ELSE "medium")
                        /\ parsed[1][k].original_id =
                              (IF im # None THEN Some(IdOf(im[1])) ELSE None)
                        /\ Len(content) <= Len(pre)
                        /\ \A b \in 1..Len(content) :
                              content[b] \notin {"{", "}", "\"epic\":\"Launch\"",
                                                  "\"epic\":\"a", "b\""}

-----------------------------------------------------------------------------
(* C30: when two reconciliations of the same parsed document run at the     *)
(* same time against the same store, empty at the start, every              *)
(* (content, section) key ends up persisted at most once, in every          *)
(* interleaving of their queries, inserts and commits.                       *)
C30_ConcurrentRunsKeepKeysDistinct ==
    (migrators # NoMigrators) => DistinctKeys(store)

====
